---- MODULE Spec2Model ----
(***************************************************************************)
(* Attorney verification: the Streamlit dashboard (src/app.py) and the     *)
(* Flask backend (src/backend.py).                                         *)
(*                                                                         *)
(* Both programs run one worker thread that walks the rows of an uploaded  *)
(* CSV file, drives a browser session through a bar directory and hands    *)
(* one result row per record to an observer.  They are two separate        *)
(* programs: a behaviour of Spec is a behaviour of one of them (program).  *)
(* SpecPipe runs the per-record pipeline of one record step by step.       *)
(***************************************************************************)
EXTENDS Integers, Sequences, FiniteSets, TLC

\* ------------------------------------------------------------------ bounds
\* Largest number of rows of an uploaded CSV file.
MaxRecords == 3

\* app.py:48 sets BATCH_SIZE = 50.  The model runs the same batch loop with a
\* batch size small enough that files of MaxRecords rows span several batches.
BATCH_SIZE == 2

\* Largest number of rows a directory search returns.
MaxCandidates == 3

VARIABLES
    program,          \* "app" (src/app.py) or "backend" (src/backend.py)
    \* ---- app.py: st.session_state (lines 38-45)
    log_queue,        \* queue.Queue of log lines (the lines the claims read)
    results_queue,    \* queue.Queue of result rows
    progress_queue,   \* queue.Queue of (current, total) and ('done','done')
    stop_event,       \* threading.Event
    process_running,
    log_messages,
    results_df,
    progress,
    \* ---- app.py: the script run of the Streamlit session (observer thread)
    obs_pc,
    \* ---- app.py: verification_thread_target (worker thread)
    w_pc,
    uploaded_file,    \* the CSV: [readable, cols_ok, total]
    num_batches,
    batch_num,
    index,            \* label of the next row of batch_df (0-based)
    driver,           \* 0 is None, k > 0 the k-th session setup_driver made
    live,             \* sessions made and not yet quit
    \* ---- app.py: what has happened in this run (read by the properties only)
    emitted,          \* every row put on results_queue, in order
    sessions,         \* number of sessions setup_driver has made
    cooldowns,        \* batch numbers after which the worker cooled down
    stop_mark,        \* Len(emitted) when Stop was first pressed, else -1
    stop_seen,        \* the worker has read stop_event as set
    \* ---- backend.py: module state
    status,           \* the global status dict (backend.py:27-30)
    saved_file,       \* the contents of "uploaded_file.csv"
    req_pc,           \* each /start request: where its handler is
    b_pc,             \* each run_verification_process thread: where it is
    b_df,             \* the file the thread read
    b_index,          \* label of the next row of df.iterrows()
    b_driver,         \* "none", "live" or "quit"
    \* ---- backend.py: what each thread has done (read by the properties only)
    b_emitted,        \* the rows the thread appended to status['results']
    b_cancelled,      \* the thread has read status['is_running'] as False
    b_raised,         \* the first record of the thread that ended in
                      \* `except Exception`, NoRecord if none has
    \* ---- app.py: one record in process_california_attorney or
    \* process_georgia_attorney, and its part of verification_thread_target
    selected_state,   \* "california" or "georgia"
    directory,        \* what the bar directory answers to the record's search
    p_pc,             \* where the record's processing is
    all_statuses,     \* status labels of the result rows (CA)
    profile_links,    \* active_profile_links (CA) or profile_urls (GA)
    scan_i,           \* position of the scan in profile_links
    result_data,      \* the record's result row
    \* ---- what the record's processing has done (read by the properties only)
    visited,          \* profile links passed to driver.get, in order
    matcher_calls,    \* calls of get_match_signals
    heading_calls,    \* calls of is_name_only_match
    fetch,            \* what the search gave: "pending", "no results", "rows", "failed"
    failure,          \* the error that ended the record: "none",
                      \* "not found or timeout" (caught in the function), "other"
    outcomes,         \* how each visit ended, in order: "no match", "matched",
                      \* "failed"
    page_read,        \* the page get_match_signals read last (app.py)
    extraction,       \* the status and discipline lookups on the matched
                      \* profile: "not tried", "found" or "failed"
    stubs,            \* what the browser and the summary call answered to
                      \* this processing of the record, in order (app.py)
    first_run,        \* an earlier processing of the same row: its answers
                      \* and its result row
    \* ---- one call of a matching or name function on its own
    fn_call,          \* the function and its arguments
    fn_ret            \* what it returned

appVars == << log_queue, results_queue, progress_queue, stop_event,
              process_running, log_messages, results_df, progress, obs_pc,
              w_pc, uploaded_file, num_batches, batch_num, index, driver, live,
              emitted, sessions, cooldowns, stop_mark, stop_seen >>

backendVars == << status, saved_file, req_pc, b_pc, b_df, b_index, b_driver,
                  b_emitted, b_cancelled, b_raised >>

pipeVars == << selected_state, directory, p_pc, all_statuses, profile_links,
               scan_i, result_data, visited, matcher_calls, heading_calls,
               fetch, failure, outcomes, page_read, extraction, stubs,
               first_run >>

fnVars == << fn_call, fn_ret >>

vars == << program, appVars, backendVars, pipeVars, fnVars >>

\* The variables only the session's script writes.
obsVars == << process_running, log_messages, results_df, progress, obs_pc >>

\* ------------------------------------------------------------------ values
Programs == {"app", "backend"}

\* An uploaded CSV file.  pd.read_csv may fail on it; otherwise it has the
\* required columns or not, and total rows.
Files ==
    {[readable |-> FALSE, cols_ok |-> FALSE, total |-> 0]}
    \cup {[readable |-> TRUE, cols_ok |-> c, total |-> n] :
             c \in BOOLEAN, n \in 0..MaxRecords}

NoFile == [readable |-> FALSE, cols_ok |-> FALSE, total |-> 0]

\* Items of progress_queue.
ProgressUpdate(cur, tot) == [kind |-> "progress", cur |-> cur, total |-> tot]
DoneMarker == [kind |-> "done", cur |-> 0, total |-> 0]

\* math.ceil(total_records / BATCH_SIZE)
Ceil(total, size) == (total + size - 1) \div size

\* The min of two numbers.
Min(a, b) == IF a < b THEN a ELSE b

\* The batch a row label belongs to: row index is in df[b*BATCH_SIZE : (b+1)*BATCH_SIZE].
BatchOf(i) == i \div BATCH_SIZE

\* A result row as the worker puts it: the record it is for, the session that
\* processed it, and whether the per-record try block ended in the except
\* clause ('Comments' = "A critical error occurred ...").
ResultRow(i, s, raised) == [index |-> i, session |-> s, raised |-> raised]


\* ------------------------------------------------------- app.py: small helpers
\* Mutant of ConcatRows: the drained rows are put before the rows held.
ConcatRows_Prepend(df, new_rows) == new_rows \o df

\* pd.concat([results_df, new_df], ignore_index=True): the drained rows go
\* after the rows already held (app.py:421).
ConcatRows(df, new_rows) == df \o new_rows

\* Mutant of ShouldCoolDown: the pause does not look at the stop flag.
ShouldCoolDown_IgnoresStop(b, nb, stop) == b < nb - 1

\* The condition of the cool-down pause (app.py:335).
ShouldCoolDown(b, nb, stop) == b < nb - 1 /\ ~stop

\* Mutant of BreakOnStop: the loops never look at the stop flag.
BreakOnStop_Never(stop) == FALSE

\* `if stop_event.is_set(): break` at the head of the batch loop and of the
\* record loop (app.py:294, 304).
BreakOnStop(stop) == stop

\* The first row label after batch b: range end of df[start_index:end_index].
BatchLimit(b, total) == Min(b * BATCH_SIZE + BATCH_SIZE, total)

\* ------------------------------------------------------- app.py: the session
\* "Start Verification" (app.py:357-371): resets the session state, empties the
\* three queues, starts the worker thread on the uploaded file and reruns.
StartVerification(f) ==
    /\ program = "app"
    /\ obs_pc = "idle"
    /\ ~process_running
    /\ process_running' = TRUE
    /\ log_messages' = << "Starting verification" >>
    /\ results_df' = << >>
    /\ progress' = << 0, 0 >>
    /\ stop_event' = FALSE
    /\ log_queue' = << >>
    /\ results_queue' = << >>
    /\ progress_queue' = << >>
    /\ uploaded_file' = f
    /\ w_pc' = "read_csv"
    /\ num_batches' = 0
    /\ batch_num' = 0
    /\ index' = 0
    /\ driver' = 0
    /\ live' = {}
    /\ emitted' = << >>
    /\ sessions' = 0
    /\ cooldowns' = {}
    /\ stop_mark' = -1
    /\ stop_seen' = FALSE
    /\ obs_pc' = "top"
    /\ UNCHANGED << fnVars, program, backendVars, pipeVars >>

\* "Stop Process" (app.py:373-375): enabled while process_running; sets the
\* stop event and reruns the script.
StopProcess ==
    /\ obs_pc = "top"
    /\ process_running
    /\ stop_event' = TRUE
    /\ stop_mark' = IF stop_event THEN stop_mark ELSE Len(emitted)
    /\ UNCHANGED << fnVars, program, backendVars, pipeVars, log_queue, results_queue, progress_queue,
                    process_running, log_messages, results_df, progress, obs_pc,
                    w_pc, uploaded_file, num_batches, batch_num, index, driver,
                    live, emitted, sessions, cooldowns, stop_seen >>

\* The polling block, app.py:416: drain log_queue into log_messages.
PollLogs ==
    /\ obs_pc = "top"
    /\ process_running
    /\ log_messages' = log_messages \o log_queue
    /\ log_queue' = << >>
    /\ obs_pc' = "results"
    /\ UNCHANGED << fnVars, program, backendVars, pipeVars, results_queue, progress_queue, stop_event,
                    process_running, results_df, progress,
                    w_pc, uploaded_file, num_batches, batch_num, index, driver,
                    live, emitted, sessions, cooldowns, stop_mark, stop_seen >>

\* app.py:417-421: drain results_queue into temp_results and append them to
\* results_df.  The drain is the instant of the last empty() test.
PollResults ==
    /\ obs_pc = "results"
    /\ results_df' = IF results_queue # << >>
                       THEN ConcatRows(results_df, results_queue)
                       ELSE results_df
    /\ results_queue' = << >>
    /\ obs_pc' = "progress"
    /\ UNCHANGED << fnVars, program, backendVars, pipeVars, log_queue, progress_queue, stop_event,
                    process_running, log_messages, progress,
                    w_pc, uploaded_file, num_batches, batch_num, index, driver,
                    live, emitted, sessions, cooldowns, stop_mark, stop_seen >>

\* app.py:422-428: one turn of `while not progress_queue.empty()`.  The 'done'
\* marker clears process_running and reruns the script, which then no longer
\* enters the polling block.
PollProgress ==
    /\ obs_pc = "progress"
    /\ IF progress_queue = << >>
         THEN /\ obs_pc' = "sleep"
              /\ UNCHANGED << progress_queue, process_running, progress >>
         ELSE /\ progress_queue' = Tail(progress_queue)
              /\ IF Head(progress_queue).kind = "done"
                   THEN /\ process_running' = FALSE
                        /\ obs_pc' = "idle"
                        /\ UNCHANGED progress
                   ELSE /\ progress' = << Head(progress_queue).cur,
                                          Head(progress_queue).total >>
                        /\ UNCHANGED << process_running, obs_pc >>
    /\ UNCHANGED << fnVars, program, backendVars, pipeVars, log_queue, results_queue, stop_event,
                    log_messages, results_df,
                    w_pc, uploaded_file, num_batches, batch_num, index, driver,
                    live, emitted, sessions, cooldowns, stop_mark, stop_seen >>

\* app.py:429-430: time.sleep(1); st.rerun().
PollSleep ==
    /\ obs_pc = "sleep"
    /\ obs_pc' = "top"
    /\ UNCHANGED << fnVars, program, backendVars, pipeVars, log_queue, results_queue, progress_queue,
                    stop_event, process_running, log_messages, results_df,
                    progress, w_pc, uploaded_file, num_batches, batch_num,
                    index, driver, live, emitted, sessions, cooldowns,
                    stop_mark, stop_seen >>

\* ------------------------------------- app.py: verification_thread_target
\* Mutant of ThreadReadCsv: the required columns are not checked.
ThreadReadCsv_NoColumnCheck ==
    /\ w_pc = "read_csv"
    /\ IF ~uploaded_file.readable
         THEN /\ w_pc' = "finally"
              /\ UNCHANGED << progress_queue, num_batches >>
         ELSE /\ progress_queue' =
                    Append(progress_queue, ProgressUpdate(0, uploaded_file.total))
              /\ num_batches' = Ceil(uploaded_file.total, BATCH_SIZE)
              /\ w_pc' = "batch_check"
    /\ batch_num' = 0
    /\ UNCHANGED << fnVars, program, backendVars, pipeVars, log_queue, results_queue,
                    stop_event, obsVars, uploaded_file, index, driver, live,
                    emitted, sessions, cooldowns, stop_mark, stop_seen >>

\* app.py:283-292: read the CSV, announce (0, total), check the columns.
ThreadReadCsv ==
    /\ w_pc = "read_csv"
    /\ IF ~uploaded_file.readable
         THEN \* pd.read_csv raises: straight to the finally clause
              /\ w_pc' = "finally"
              /\ UNCHANGED << progress_queue, log_queue, num_batches >>
         ELSE /\ progress_queue' =
                    Append(progress_queue, ProgressUpdate(0, uploaded_file.total))
              /\ IF ~uploaded_file.cols_ok
                   THEN /\ log_queue' = Append(log_queue, "ERROR: CSV is missing required columns")
                        /\ w_pc' = "finally"
                        /\ UNCHANGED num_batches
                   ELSE /\ num_batches' = Ceil(uploaded_file.total, BATCH_SIZE)
                        /\ w_pc' = "batch_check"
                        /\ UNCHANGED log_queue
    /\ batch_num' = 0
    /\ UNCHANGED << fnVars, program, backendVars, pipeVars, results_queue, stop_event, obsVars, uploaded_file,
                    index, driver, live, emitted, sessions, cooldowns,
                    stop_mark, stop_seen >>

\* app.py:293-294: the head of `for batch_num in range(num_batches)`.
ThreadBatchCheck ==
    /\ w_pc = "batch_check"
    /\ IF batch_num >= num_batches
         THEN w_pc' = "finally" /\ UNCHANGED stop_seen
         ELSE IF BreakOnStop(stop_event)
                THEN w_pc' = "finally" /\ stop_seen' = TRUE
                ELSE w_pc' = "setup_driver" /\ UNCHANGED stop_seen
    /\ UNCHANGED << fnVars, program, backendVars, pipeVars, log_queue, results_queue, progress_queue,
                    stop_event, obsVars, uploaded_file, num_batches, batch_num,
                    index, driver, live, emitted, sessions, cooldowns,
                    stop_mark >>

\* app.py:295-301: setup_driver (app.py:55-64) returns a new session or
\* raises; it never returns None.  On success the batch slice starts at
\* batch_num * BATCH_SIZE.
ThreadSetupDriver ==
    /\ w_pc = "setup_driver"
    /\ \E started \in BOOLEAN :
         IF started
           THEN /\ sessions' = sessions + 1
                /\ driver' = sessions + 1
                /\ live' = live \cup {sessions + 1}
                /\ index' = batch_num * BATCH_SIZE
                /\ w_pc' = "record_check"
           ELSE /\ w_pc' = "finally"
                /\ UNCHANGED << sessions, driver, live, index >>
    /\ UNCHANGED << fnVars, program, backendVars, pipeVars, log_queue, results_queue, progress_queue,
                    stop_event, obsVars, uploaded_file, num_batches, batch_num,
                    emitted, cooldowns, stop_mark, stop_seen >>

\* app.py:303-307: the head of `for index, row in batch_df.iterrows()`, and
\* the progress update of the record that starts.
ThreadRecordCheck ==
    /\ w_pc = "record_check"
    /\ IF index >= BatchLimit(batch_num, uploaded_file.total)
         THEN /\ w_pc' = "batch_end"
              /\ UNCHANGED << progress_queue, stop_seen >>
         ELSE IF BreakOnStop(stop_event)
                THEN /\ w_pc' = "batch_end"
                     /\ stop_seen' = TRUE
                     /\ UNCHANGED progress_queue
                ELSE /\ progress_queue' =
                           Append(progress_queue,
                                  ProgressUpdate(index + 1, uploaded_file.total))
                     /\ w_pc' = "in_record"
                     /\ UNCHANGED stop_seen
    /\ UNCHANGED << fnVars, program, backendVars, pipeVars, log_queue, results_queue, stop_event, obsVars,
                    uploaded_file, num_batches, batch_num, index, driver, live,
                    emitted, sessions, cooldowns, stop_mark >>

\* Mutant of ThreadProcessRecord: an exception of the record's try block is
\* not caught in the loop and ends the thread through the finally clause.
ThreadProcessRecord_RaiseAborts ==
    /\ w_pc = "in_record"
    /\ \E raised \in BOOLEAN :
         IF raised
           THEN /\ w_pc' = "finally"
                /\ UNCHANGED << results_queue, emitted, index >>
           ELSE /\ results_queue' = Append(results_queue, ResultRow(index, driver, FALSE))
                /\ emitted' = Append(emitted, ResultRow(index, driver, FALSE))
                /\ index' = index + 1
                /\ w_pc' = "record_check"
    /\ UNCHANGED << fnVars, program, backendVars, pipeVars, log_queue, progress_queue,
                    stop_event, obsVars, uploaded_file, num_batches, batch_num,
                    driver, live, sessions, cooldowns, stop_mark, stop_seen >>

\* app.py:309-332: the record's try block returns or ends in `except
\* Exception`; either way the row is put on results_queue.
ThreadProcessRecord ==
    /\ w_pc = "in_record"
    /\ \E raised \in BOOLEAN :
         /\ results_queue' = Append(results_queue, ResultRow(index, driver, raised))
         /\ emitted' = Append(emitted, ResultRow(index, driver, raised))
    /\ index' = index + 1
    /\ w_pc' = "record_check"
    /\ UNCHANGED << fnVars, program, backendVars, pipeVars, log_queue, progress_queue, stop_event, obsVars,
                    uploaded_file, num_batches, batch_num, driver, live,
                    sessions, cooldowns, stop_mark, stop_seen >>

\* Mutant of ThreadBatchEnd: the batch's session is not quit.
ThreadBatchEnd_NoQuit ==
    /\ w_pc = "batch_end"
    /\ IF ShouldCoolDown(batch_num, num_batches, stop_event)
         THEN /\ w_pc' = "cooldown"
              /\ UNCHANGED << batch_num, stop_seen >>
         ELSE /\ w_pc' = "batch_check"
              /\ batch_num' = batch_num + 1
              /\ stop_seen' = (stop_seen \/ (batch_num < num_batches - 1 /\ stop_event))
    /\ UNCHANGED << fnVars, program, backendVars, pipeVars, log_queue, results_queue,
                    progress_queue, stop_event, obsVars, uploaded_file,
                    num_batches, index, driver, live, emitted, sessions,
                    cooldowns, stop_mark >>

\* app.py:334-337: quit the batch's session, then either start the cool-down
\* pause or go to the next batch.
ThreadBatchEnd ==
    /\ w_pc = "batch_end"
    /\ live' = live \ {driver}
    /\ IF ShouldCoolDown(batch_num, num_batches, stop_event)
         THEN /\ w_pc' = "cooldown"
              /\ UNCHANGED << batch_num, stop_seen >>
         ELSE /\ w_pc' = "batch_check"
              /\ batch_num' = batch_num + 1
              /\ stop_seen' = (stop_seen \/ (batch_num < num_batches - 1 /\ stop_event))
    /\ UNCHANGED << fnVars, program, backendVars, pipeVars, log_queue, results_queue, progress_queue,
                    stop_event, obsVars, uploaded_file, num_batches, index,
                    driver, emitted, sessions, cooldowns, stop_mark >>

\* app.py:337: time.sleep(COOL_DOWN_SECONDS) returns.
ThreadCoolDown ==
    /\ w_pc = "cooldown"
    /\ cooldowns' = cooldowns \cup {batch_num}
    /\ batch_num' = batch_num + 1
    /\ w_pc' = "batch_check"
    /\ UNCHANGED << fnVars, program, backendVars, pipeVars, log_queue, results_queue, progress_queue,
                    stop_event, obsVars, uploaded_file, num_batches, index,
                    driver, live, emitted, sessions, stop_mark, stop_seen >>

\* Mutant of ThreadFinally: the thread ends without its 'done' marker.
ThreadFinally_NoMarker ==
    /\ w_pc = "finally"
    /\ live' = IF driver # 0 THEN live \ {driver} ELSE live
    /\ log_queue' = Append(log_queue, "Verification process finished.")
    /\ w_pc' = "done"
    /\ UNCHANGED << fnVars, program, backendVars, pipeVars, results_queue,
                    progress_queue, stop_event, obsVars, uploaded_file,
                    num_batches, batch_num, index, driver, emitted, sessions,
                    cooldowns, stop_mark, stop_seen >>

\* app.py:338-341: the finally clause.  Chrome's quit() swallows the error of
\* quitting a session twice.
ThreadFinally ==
    /\ w_pc = "finally"
    /\ live' = IF driver # 0 THEN live \ {driver} ELSE live
    /\ log_queue' = Append(log_queue, "Verification process finished.")
    /\ progress_queue' = Append(progress_queue, DoneMarker)
    /\ w_pc' = "done"
    /\ UNCHANGED << fnVars, program, backendVars, pipeVars, results_queue, stop_event, obsVars, uploaded_file,
                    num_batches, batch_num, index, driver, emitted, sessions,
                    cooldowns, stop_mark, stop_seen >>

Worker ==
    \/ ThreadReadCsv
    \/ ThreadBatchCheck
    \/ ThreadSetupDriver
    \/ ThreadRecordCheck
    \/ ThreadProcessRecord
    \/ ThreadBatchEnd
    \/ ThreadCoolDown
    \/ ThreadFinally

Poll == PollLogs \/ PollResults \/ PollProgress \/ PollSleep

\* ------------------------------------------------------- backend.py
\* The /start requests of a behaviour: two, so that two handlers (and the
\* threads they start) can overlap, or follow one another.
Requests == {1, 2}

\* A result row of backend.py, by the record it is for ('Name').
BackendRow(i) == [index |-> i]

\* No record of the thread has ended in `except Exception` so far.
NoRecord == 0 - 1

\* The status dict start_process installs (backend.py:208).
FreshStatus ==
    [is_running |-> TRUE, progress |-> 0, total |-> 0,
     log |-> << "Starting verification..." >>, results |-> << >>]

\* `finally: status['is_running'] = False` (backend.py:190-191).
ClearRunning(st) == [st EXCEPT !.is_running = FALSE]

\* `if not status['is_running']` at the head of the record loop
\* (backend.py:105).
Cancelled(st) == ~st.is_running

\* start_process, backend.py:201-206: refuse while a run is in progress and
\* refuse a file that is not a .csv upload.
StartCheck(r) ==
    /\ program = "backend"
    /\ req_pc[r] = "new"
    /\ IF status.is_running
         THEN req_pc' = [req_pc EXCEPT ![r] = "already_running"]
         ELSE \E is_csv \in BOOLEAN :
                req_pc' = [req_pc EXCEPT ![r] = IF is_csv THEN "accepted"
                                                          ELSE "invalid_file"]
    /\ UNCHANGED << fnVars, program, appVars, pipeVars, status, saved_file, b_pc, b_df, b_index,
                    b_driver, b_emitted, b_cancelled, b_raised >>

\* start_process, backend.py:208-215: install a fresh status, save the upload
\* and start the thread.
StartThread(r, f) ==
    /\ req_pc[r] = "accepted"
    /\ status' = FreshStatus
    /\ saved_file' = f
    /\ b_pc' = [b_pc EXCEPT ![r] = "read_csv"]
    /\ req_pc' = [req_pc EXCEPT ![r] = "started"]
    /\ UNCHANGED << fnVars, program, appVars, pipeVars, b_df, b_index, b_driver, b_emitted,
                    b_cancelled, b_raised >>

\* run_verification_process, backend.py:94-99: read the saved file and check
\* its headers; a failure is raised into the outer except clause.
RunReadCsv(w) ==
    /\ b_pc[w] = "read_csv"
    /\ b_df' = [b_df EXCEPT ![w] = saved_file]
    /\ IF saved_file.readable /\ saved_file.cols_ok
         THEN /\ status' = [status EXCEPT !.total = saved_file.total]
              /\ b_pc' = [b_pc EXCEPT ![w] = "setup_driver"]
         ELSE /\ b_pc' = [b_pc EXCEPT ![w] = "fatal"]
              /\ UNCHANGED status
    /\ UNCHANGED << fnVars, program, appVars, pipeVars, saved_file, req_pc, b_index, b_driver,
                    b_emitted, b_cancelled, b_raised >>

\* backend.py:100-102: setup_driver (backend.py:34-49) returns a session or
\* None; None is raised into the outer except clause.
RunSetupDriver(w) ==
    /\ b_pc[w] = "setup_driver"
    /\ \E started \in BOOLEAN :
         IF started
           THEN /\ b_driver' = [b_driver EXCEPT ![w] = "live"]
                /\ b_pc' = [b_pc EXCEPT ![w] = "record_check"]
                /\ UNCHANGED status
           ELSE /\ status' = [status EXCEPT
                                !.log = Append(@, "CRITICAL DRIVER ERROR")]
                /\ b_pc' = [b_pc EXCEPT ![w] = "fatal"]
                /\ UNCHANGED b_driver
    /\ UNCHANGED << fnVars, program, appVars, pipeVars, saved_file, req_pc, b_df, b_index,
                    b_emitted, b_cancelled, b_raised >>

\* backend.py:104-116: the head of `for index, row in df.iterrows()`.
RunRecordCheck(w) ==
    /\ b_pc[w] = "record_check"
    /\ IF b_index[w] >= b_df[w].total
         THEN /\ b_pc' = [b_pc EXCEPT ![w] = "quit"]
              /\ UNCHANGED << status, b_cancelled >>
         ELSE IF Cancelled(status)
                THEN /\ status' = [status EXCEPT
                                     !.log = Append(@, "Process cancelled by user.")]
                     /\ b_cancelled' = [b_cancelled EXCEPT ![w] = TRUE]
                     /\ b_pc' = [b_pc EXCEPT ![w] = "quit"]
                ELSE /\ status' = [status EXCEPT !.progress = b_index[w] + 1]
                     /\ b_pc' = [b_pc EXCEPT ![w] = "in_record"]
                     /\ UNCHANGED b_cancelled
    /\ UNCHANGED << fnVars, program, appVars, pipeVars, saved_file, req_pc, b_df, b_index,
                    b_driver, b_emitted, b_raised >>

\* backend.py:118-183: the record's try block ends with the 'Not Found'
\* continue, at its end, or in `except Exception`; each way appends the row.
RunProcessRecord(w) ==
    /\ b_pc[w] = "in_record"
    /\ \E raised \in BOOLEAN :
         b_raised' = [b_raised EXCEPT
                        ![w] = IF raised /\ @ = NoRecord THEN b_index[w] ELSE @]
    /\ status' = [status EXCEPT !.results = Append(@, BackendRow(b_index[w]))]
    /\ b_emitted' = [b_emitted EXCEPT ![w] = Append(@, BackendRow(b_index[w]))]
    /\ b_index' = [b_index EXCEPT ![w] = @ + 1]
    /\ b_pc' = [b_pc EXCEPT ![w] = "record_check"]
    /\ UNCHANGED << fnVars, program, appVars, pipeVars, saved_file, req_pc, b_df, b_driver,
                    b_cancelled >>

\* backend.py:185-191: after the loop, quit the session, log, and clear
\* is_running in the finally clause.
RunQuit(w) ==
    /\ b_pc[w] = "quit"
    /\ b_driver' = [b_driver EXCEPT ![w] = "quit"]
    /\ status' = ClearRunning([status EXCEPT
                    !.log = Append(@, "Verification process complete!")])
    /\ b_pc' = [b_pc EXCEPT ![w] = "done"]
    /\ UNCHANGED << fnVars, program, appVars, pipeVars, saved_file, req_pc, b_df, b_index,
                    b_emitted, b_cancelled, b_raised >>

\* backend.py:188-191: the outer except clause logs the fatal error; the
\* finally clause clears is_running.
RunFatal(w) ==
    /\ b_pc[w] = "fatal"
    /\ status' = ClearRunning([status EXCEPT !.log = Append(@, "--- FATAL ERROR ---")])
    /\ b_pc' = [b_pc EXCEPT ![w] = "done"]
    /\ UNCHANGED << fnVars, program, appVars, pipeVars, saved_file, req_pc, b_df, b_index,
                    b_driver, b_emitted, b_cancelled, b_raised >>

Run(w) ==
    \/ RunReadCsv(w)
    \/ RunSetupDriver(w)
    \/ RunRecordCheck(w)
    \/ RunProcessRecord(w)
    \/ RunQuit(w)
    \/ RunFatal(w)

\* backend.py:27-30 and no request received yet.
BackendInit ==
    /\ status = [is_running |-> FALSE, progress |-> 0, total |-> 0,
                 log |-> << >>, results |-> << >>]
    /\ saved_file = NoFile
    /\ req_pc = [r \in Requests |-> "new"]
    /\ b_pc = [r \in Requests |-> "idle"]
    /\ b_df = [r \in Requests |-> NoFile]
    /\ b_index = [r \in Requests |-> 0]
    /\ b_driver = [r \in Requests |-> "none"]
    /\ b_emitted = [r \in Requests |-> << >>]
    /\ b_cancelled = [r \in Requests |-> FALSE]
    /\ b_raised = [r \in Requests |-> NoRecord]

BackendNext ==
    \/ \E r \in Requests : StartCheck(r)
    \/ \E r \in Requests, f \in Files : StartThread(r, f)
    \/ \E w \in Requests : Run(w)

\* ------------------------------------- app.py: the pipeline of one record
\* Status labels of the directory's result rows.
Labels ==
    {"Active", "ACTIVE", "Inactive", "INACTIVE", "Deceased", "Judge", "Not Eligible"}

\* str.lower() on a status label.
Lower(s) ==
    CASE s \in {"Active", "ACTIVE"} -> "active"
      [] s \in {"Inactive", "INACTIVE"} -> "inactive"
      [] s = "Deceased" -> "deceased"
      [] s = "Judge" -> "judge"
      [] s = "Not Eligible" -> "not eligible"
      [] OTHER -> s

\* The labels in the order sorted() gives strings (by code point).
LabelOrder ==
    << "ACTIVE", "Active", "Deceased", "INACTIVE", "Inactive", "Judge", "Not Eligible" >>

RowLists == UNION {[1..n -> Labels] : n \in 0..MaxCandidates}

\* What the directory shows for a search: the "returned no results" notice,
\* or a result list (row k has status label rows[k] and profile link k).
Directories ==
    {[notice |-> TRUE, rows |-> << >>]}
    \cup {[notice |-> FALSE, rows |-> r] : r \in RowLists}

\* The Georgia directory lists profile links with no status label; none
\* within the timeout is its way of showing no result.
NoLabel == ""

GeorgiaDirectories ==
    {[notice |-> FALSE, rows |-> [k \in 1..n |-> NoLabel]] : n \in 0..MaxCandidates}

\* A profile page as the matcher reads it: whether each test of
\* get_match_signals holds on its text, and whether a heading holds the name.
Pages == [firm : BOOLEAN, email : BOOLEAN, website : BOOLEAN, heading : BOOLEAN]

NoComment == [kind |-> "absent", labels |-> << >>]

\* result_data as verification_thread_target creates it (app.py:309-313);
\* link 0 is 'Not Found', the keys 'Match Signals', 'Name Match Only' and
\* 'Comments' are absent.
UnsetResult ==
    [vs |-> "Error Processing", disc |-> "Not Checked", link |-> 0,
     unmatched |-> << >>, signals |-> << >>, name_only |-> "absent",
     comments |-> NoComment]

\* No profile page was read yet.
NoPage == [firm |-> FALSE, email |-> FALSE, website |-> FALSE, heading |-> FALSE,
           read |-> FALSE]

\* No lookup was made on a matched profile yet.
NotTried == [status |-> "not tried", disc |-> "not tried"]

\* How a lookup ended, for `extraction`.
LookupEnd(lookup) == IF lookup = "failed" THEN "failed" ELSE "found"

\* Mutant of Recovered: a failed lookup leaves the field as it was created.
Recovered_NotChecked(lookup, sentinel) ==
    IF lookup = "failed" THEN "Not Checked" ELSE lookup

\* The try/except around a lookup on the matched profile (app.py:194-198,
\* 264-271, backend.py:170-174): the text found, or the sentinel string.
Recovered(lookup, sentinel) ==
    IF lookup = "failed" THEN sentinel ELSE lookup

\* Mutant of get_match_signals: the e-mail test is reported before the firm.
get_match_signals_EmailFirst(page) ==
    (IF page.email THEN << "Name in Email" >> ELSE << >>)
    \o (IF page.firm THEN << "Firm Name" >> ELSE << >>)
    \o (IF page.website THEN << "Name in Website" >> ELSE << >>)

\* get_match_signals (app.py:81-104): the tests that hold, in evaluation order.
get_match_signals(page) ==
    (IF page.firm THEN << "Firm Name" >> ELSE << >>)
    \o (IF page.email THEN << "Name in Email" >> ELSE << >>)
    \o (IF page.website THEN << "Name in Website" >> ELSE << >>)

\* is_name_only_match (app.py:106-114).
is_name_only_match(page) == page.heading

\* Mutant of MatchSignals: the heading fallback is added whenever the heading
\* holds the name.
MatchSignals_FallbackAlways(page) ==
    get_match_signals(page)
    \o (IF is_name_only_match(page) THEN << "Name Only Fallback" >> ELSE << >>)

\* app.py:183-187: the signals of a page; the heading fallback is tried only
\* when get_match_signals found nothing.
MatchSignals(page) ==
    IF get_match_signals(page) = << >> /\ is_name_only_match(page)
      THEN << "Name Only Fallback" >>
      ELSE get_match_signals(page)

\* app.py:184-187: name_match_only.
NameMatchOnly(page) == get_match_signals(page) = << >> /\ is_name_only_match(page)

\* Mutant of ActiveLinks: the links of all rows, with no narrowing.
ActiveLinks_AllRows(rows) == [k \in 1..Len(rows) |-> k]

\* app.py:173: the links of the rows whose label is 'active' in any case, in
\* row order.
ActiveLinks(rows) ==
    LET F[k \in 0..Len(rows)] ==
          IF k = 0 THEN << >>
          ELSE IF Lower(rows[k]) = "active" THEN Append(F[k - 1], k)
          ELSE F[k - 1]
    IN F[Len(rows)]

\* Mutant of AllLinks: the links in reverse row order.
AllLinks_Reversed(rows) == [k \in 1..Len(rows) |-> Len(rows) - k + 1]

\* app.py:241: every link of the result list, in row order.
AllLinks(rows) == [k \in 1..Len(rows) |-> k]

status_hierarchy == << "deceased", "disbarred", "resigned", "suspended", "inactive" >>

\* The sort key of app.py:206: the index in status_hierarchy, or its length.
HierarchyKey(s) ==
    IF \E k \in DOMAIN status_hierarchy : status_hierarchy[k] = Lower(s)
      THEN (CHOOSE k \in DOMAIN status_hierarchy : status_hierarchy[k] = Lower(s)) - 1
      ELSE Len(status_hierarchy)

\* set(all_statuses)
Distinct(statuses) == {statuses[k] : k \in DOMAIN statuses}

\* Mutant of BestStatuses: the label of the first row, with no precedence.
BestStatuses_FirstLabel(statuses) ==
    IF statuses = << >> THEN {"Not Found"} ELSE {statuses[1]}

\* app.py:205-208: the labels that can come first in
\* sorted(list(set(all_statuses)), key=...).  The sort is stable and the order
\* of list(set(...)) is not fixed, so every label of least key can be first;
\* with no label at all best_status stays "Not Found".
BestStatuses(statuses) ==
    IF statuses = << >> THEN {"Not Found"}
    ELSE {s \in Distinct(statuses) :
            \A t \in Distinct(statuses) : HierarchyKey(s) <= HierarchyKey(t)}

\* sorted(list(set(all_statuses))) (app.py:211).
SortedDistinct(statuses) ==
    SelectSeq(LabelOrder, LAMBDA l : l \in Distinct(statuses))

\* The row was not processed before.
NoRun == [done |-> FALSE, stubs |-> << >>, result |-> UnsetResult]

\* One answer of the browser or of the summary call: the call, how it ended
\* and, for a profile visit, the page it showed.
Stub(call, out) ==
    [call |-> call, out |-> out,
     page |-> [firm |-> FALSE, email |-> FALSE, website |-> FALSE, heading |-> FALSE]]

PageStub(out, page) == [call |-> "visit", out |-> out, page |-> page]

\* The processing receives the answers `answers`.  When the row was
\* processed before, the browser and the summary call answer as they did
\* then.
Consume(answers) ==
    /\ first_run.done =>
          /\ Len(stubs) + Len(answers) <= Len(first_run.stubs)
          /\ SubSeq(first_run.stubs, Len(stubs) + 1, Len(stubs) + Len(answers)) = answers
    /\ stubs' = stubs \o answers

\* Mutant of ResolveActive: the status is left for after the scan.
ResolveActive_Deferred(rd) == rd

\* app.py:175-176: with an active row the status is 'Active', written before
\* the scan of the active profiles.
ResolveActive(rd) == [rd EXCEPT !.vs = "Active"]

\* app.py:309-323: a fresh result_data, then the function of the selected state.
RecordStart ==
    /\ program = "app"
    /\ p_pc = "start"
    /\ result_data' = UnsetResult
    /\ p_pc' = IF selected_state = "california" THEN "ca_search" ELSE "ga_search"
    /\ UNCHANGED << outcomes, page_read, extraction, stubs >>
    /\ UNCHANGED << fnVars, first_run, program, appVars, backendVars, selected_state, directory,
                    all_statuses, profile_links, scan_i, visited, matcher_calls,
                    heading_calls, fetch, failure >>

\* process_california_attorney, app.py:157-162: open the search page and
\* submit the name.  Nothing catches a failure here.
CaliforniaSearch ==
    /\ p_pc = "ca_search"
    /\ \E failed \in BOOLEAN :
         /\ Consume(<< Stub("search", IF failed THEN "raised" ELSE "done") >>)
         /\ p_pc' = IF failed THEN "raised" ELSE "ca_notice"
         /\ failure' = IF failed THEN "other" ELSE failure
         /\ fetch' = IF failed THEN "failed" ELSE fetch
    /\ UNCHANGED << outcomes, page_read, extraction >>
    /\ UNCHANGED << fnVars, first_run, program, appVars, backendVars, selected_state, directory,
                    all_statuses, profile_links, scan_i, result_data, visited,
                    matcher_calls, heading_calls >>

\* app.py:163-167: the "returned no results" notice ends the record.
CaliforniaNotice ==
    /\ p_pc = "ca_notice"
    /\ IF directory.notice
         THEN /\ result_data' = [result_data EXCEPT !.vs = "Not Found on CalBar"]
              /\ fetch' = "no results"
              /\ p_pc' = "returned"
         ELSE /\ p_pc' = "ca_table"
              /\ UNCHANGED << result_data, fetch >>
    /\ UNCHANGED << outcomes, page_read, extraction, stubs >>
    /\ UNCHANGED << fnVars, first_run, program, appVars, backendVars, selected_state, directory,
                    all_statuses, profile_links, scan_i, visited, matcher_calls,
                    heading_calls, failure >>

\* app.py:170-176 and 203-215: wait for the result table and read its rows.
\* A table that never shows is a TimeoutException, caught at line 214.  With
\* an active row the status is 'Active' and the scan starts; otherwise the
\* record ends with the first label of the hierarchy sort.
CaliforniaReadTable ==
    /\ p_pc = "ca_table"
    /\ \E shown \in BOOLEAN :
         /\ Consume(<< Stub("table", IF shown THEN "shown" ELSE "timeout") >>)
         /\ IF ~shown
              THEN /\ result_data' = [result_data EXCEPT !.vs = "Search Error (CA)"]
                   /\ p_pc' = "returned"
                   /\ fetch' = "failed"
                   /\ failure' = "not found or timeout"
                   /\ UNCHANGED << all_statuses, profile_links, scan_i >>
              ELSE /\ all_statuses' = directory.rows
                   /\ fetch' = "rows"
                   /\ UNCHANGED failure
                   /\ profile_links' = ActiveLinks(directory.rows)
                   /\ IF ActiveLinks(directory.rows) # << >>
                        THEN /\ result_data' = ResolveActive(result_data)
                             /\ scan_i' = 1
                             /\ p_pc' = "ca_scan"
                        ELSE /\ \E best \in BestStatuses(directory.rows) :
                                  result_data' =
                                    [result_data EXCEPT
                                       !.vs = best,
                                       !.comments =
                                          IF Cardinality(Distinct(directory.rows)) > 1
                                            THEN [kind |-> "Multiple non-active statuses found",
                                                  labels |-> SortedDistinct(directory.rows)]
                                            ELSE @,
                                       !.disc = "Not Applicable (Non-Active)"]
                             /\ p_pc' = "returned"
                             /\ UNCHANGED scan_i
    /\ UNCHANGED << outcomes, page_read, extraction >>
    /\ UNCHANGED << fnVars, first_run, program, appVars, backendVars, selected_state, directory,
                    visited, matcher_calls, heading_calls >>

\* app.py:178-199: one turn of `for link in active_profile_links`.  The visit
\* fails with NoSuchElementException or TimeoutException (caught at line 214),
\* fails with another error (not caught here), or gives a page; a page with a
\* signal ends the scan.
CaliforniaScan ==
    /\ p_pc = "ca_scan"
    /\ scan_i <= Len(profile_links)
    /\ visited' = Append(visited, profile_links[scan_i])
    /\ \E nav \in {"page", "not found or timeout", "other error"} :
         CASE nav = "other error" ->
                /\ Consume(<< Stub("visit", nav) >>)
                /\ p_pc' = "raised"
                /\ failure' = "other"
                /\ outcomes' = Append(outcomes, "failed")
                /\ UNCHANGED << result_data, scan_i, matcher_calls, heading_calls,
                                page_read, extraction >>
           [] nav = "not found or timeout" ->
                /\ Consume(<< Stub("visit", nav) >>)
                /\ result_data' = [result_data EXCEPT !.vs = "Search Error (CA)"]
                /\ p_pc' = "returned"
                /\ failure' = "not found or timeout"
                /\ outcomes' = Append(outcomes, "failed")
                /\ UNCHANGED << scan_i, matcher_calls, heading_calls, page_read,
                                extraction >>
           [] nav = "page" ->
                \E page \in Pages :
                  /\ UNCHANGED failure
                  /\ page_read' = [firm |-> page.firm, email |-> page.email,
                                   website |-> page.website,
                                   heading |-> page.heading, read |-> TRUE]
                  /\ matcher_calls' = matcher_calls + 1
                  /\ heading_calls' = IF get_match_signals(page) = << >>
                                        THEN heading_calls + 1 ELSE heading_calls
                  /\ IF MatchSignals(page) # << >>
                       THEN /\ \E lookup \in {"No", "Yes", "failed"} :
                                 /\ Consume(<< PageStub("page", page),
                                               Stub("discipline", lookup) >>)
                                 /\ result_data' =
                                      [result_data EXCEPT
                                         !.link = profile_links[scan_i],
                                         !.signals = MatchSignals(page),
                                         !.name_only = IF NameMatchOnly(page) THEN "Yes" ELSE "No",
                                         !.disc = Recovered(lookup, "Discipline Info Not Found (CA)")]
                                 /\ extraction' = [extraction EXCEPT !.disc = LookupEnd(lookup)]
                            /\ outcomes' = Append(outcomes, "matched")
                            /\ p_pc' = "returned"
                            /\ UNCHANGED scan_i
                       ELSE /\ Consume(<< PageStub("page", page) >>)
                            /\ scan_i' = scan_i + 1
                            /\ outcomes' = Append(outcomes, "no match")
                            /\ UNCHANGED << result_data, p_pc, extraction >>
    /\ UNCHANGED << fnVars, first_run, program, appVars, backendVars, selected_state, directory,
                    all_statuses, profile_links, fetch >>

\* Mutant of CaliforniaExhausted: the unmatched links are not recorded.
CaliforniaExhausted_NoLinks ==
    /\ p_pc = "ca_scan"
    /\ scan_i > Len(profile_links)
    /\ result_data' = [result_data EXCEPT !.disc = "Match Not Confirmed"]
    /\ p_pc' = "returned"
    /\ UNCHANGED << outcomes, page_read, extraction, stubs >>
    /\ UNCHANGED << fnVars, first_run, program, appVars, backendVars, selected_state, directory,
                    all_statuses, profile_links, scan_i, visited, matcher_calls,
                    heading_calls, fetch, failure >>

\* app.py:200-202: the scan ended with no match.
CaliforniaExhausted ==
    /\ p_pc = "ca_scan"
    /\ scan_i > Len(profile_links)
    /\ result_data' = [result_data EXCEPT !.disc = "Match Not Confirmed",
                                          !.unmatched = profile_links]
    /\ p_pc' = "returned"
    /\ UNCHANGED << outcomes, page_read, extraction, stubs >>
    /\ UNCHANGED << fnVars, first_run, program, appVars, backendVars, selected_state, directory,
                    all_statuses, profile_links, scan_i, visited, matcher_calls,
                    heading_calls, fetch, failure >>

\* process_georgia_attorney, app.py:223-235: open the directory and submit the
\* form; a failure is raised again and nothing catches it here.
GeorgiaSearch ==
    /\ p_pc = "ga_search"
    /\ \E failed \in BOOLEAN :
         /\ Consume(<< Stub("search", IF failed THEN "raised" ELSE "done") >>)
         /\ p_pc' = IF failed THEN "raised" ELSE "ga_links"
         /\ failure' = IF failed THEN "other" ELSE failure
         /\ fetch' = IF failed THEN "failed" ELSE fetch
    /\ UNCHANGED << outcomes, page_read, extraction >>
    /\ UNCHANGED << fnVars, first_run, program, appVars, backendVars, selected_state, directory,
                    all_statuses, profile_links, scan_i, result_data, visited,
                    matcher_calls, heading_calls >>

\* app.py:237-244: wait for profile links.  None within the timeout ends the
\* record as 'Not Found on GA Bar'.
GeorgiaLinks ==
    /\ p_pc = "ga_links"
    /\ \E found \in BOOLEAN :
         /\ found => directory.rows # << >>
         /\ Consume(<< Stub("links", IF found THEN "found" ELSE "timeout") >>)
         /\ IF found
              THEN /\ profile_links' = AllLinks(directory.rows)
                   /\ scan_i' = 1
                   /\ fetch' = "rows"
                   /\ p_pc' = "ga_scan"
                   /\ UNCHANGED result_data
              ELSE /\ result_data' = [result_data EXCEPT !.vs = "Not Found on GA Bar"]
                   /\ fetch' = "no results"
                   /\ p_pc' = "returned"
                   /\ UNCHANGED << profile_links, scan_i >>
    /\ UNCHANGED << outcomes, page_read, extraction >>
    /\ UNCHANGED << fnVars, first_run, program, appVars, backendVars, selected_state, directory,
                    all_statuses, visited, matcher_calls, heading_calls, failure >>

\* app.py:248-272: one turn of `for url in profile_urls`.  No try block
\* surrounds the visit; the two lookups on a matched page fall back to their
\* sentinel strings.
GeorgiaScan ==
    /\ p_pc = "ga_scan"
    /\ scan_i <= Len(profile_links)
    /\ visited' = Append(visited, profile_links[scan_i])
    /\ \E failed \in BOOLEAN :
         IF failed
           THEN /\ Consume(<< Stub("visit", "other error") >>)
                /\ p_pc' = "raised"
                /\ failure' = "other"
                /\ outcomes' = Append(outcomes, "failed")
                /\ UNCHANGED << result_data, scan_i, matcher_calls, heading_calls,
                                page_read, extraction >>
           ELSE \E page \in Pages :
                  /\ UNCHANGED failure
                  /\ page_read' = [firm |-> page.firm, email |-> page.email,
                                   website |-> page.website,
                                   heading |-> page.heading, read |-> TRUE]
                  /\ matcher_calls' = matcher_calls + 1
                  /\ heading_calls' = IF get_match_signals(page) = << >>
                                        THEN heading_calls + 1 ELSE heading_calls
                  /\ IF MatchSignals(page) # << >>
                       THEN /\ \E st \in {"Active Member in Good Standing", "failed"},
                                  lookup \in {"None on Record", "failed"} :
                                 /\ Consume(<< PageStub("page", page),
                                               Stub("status", st),
                                               Stub("discipline", lookup) >>)
                                 /\ result_data' =
                                      [result_data EXCEPT
                                         !.link = profile_links[scan_i],
                                         !.signals = MatchSignals(page),
                                         !.name_only = IF NameMatchOnly(page) THEN "Yes" ELSE "No",
                                         !.vs = Recovered(st, "Status Not Found (GA)"),
                                         !.disc = Recovered(lookup, "Discipline Info Not Found (GA)")]
                                 /\ extraction' = [status |-> LookupEnd(st),
                                                   disc |-> LookupEnd(lookup)]
                            /\ outcomes' = Append(outcomes, "matched")
                            /\ p_pc' = "returned"
                            /\ UNCHANGED scan_i
                       ELSE /\ Consume(<< PageStub("page", page) >>)
                            /\ scan_i' = scan_i + 1
                            /\ outcomes' = Append(outcomes, "no match")
                            /\ UNCHANGED << result_data, p_pc, extraction >>
    /\ UNCHANGED << fnVars, first_run, program, appVars, backendVars, selected_state, directory,
                    all_statuses, profile_links, fetch >>

\* Mutant of GeorgiaExhausted: the last profile visited is kept as the link.
GeorgiaExhausted_KeepsLink ==
    /\ p_pc = "ga_scan"
    /\ scan_i > Len(profile_links)
    /\ result_data' = [result_data EXCEPT !.vs = "Match Not Confirmed",
                                          !.unmatched = profile_links,
                                          !.link = profile_links[Len(profile_links)]]
    /\ p_pc' = "returned"
    /\ UNCHANGED << outcomes, page_read, extraction, stubs >>
    /\ UNCHANGED << fnVars, first_run, program, appVars, backendVars, selected_state, directory,
                    all_statuses, profile_links, scan_i, visited, matcher_calls,
                    heading_calls, fetch, failure >>

\* app.py:274-278: the scan ended with no match.
GeorgiaExhausted ==
    /\ p_pc = "ga_scan"
    /\ scan_i > Len(profile_links)
    /\ result_data' = [result_data EXCEPT !.vs = "Match Not Confirmed",
                                          !.unmatched = profile_links]
    /\ p_pc' = "returned"
    /\ UNCHANGED << outcomes, page_read, extraction, stubs >>
    /\ UNCHANGED << fnVars, first_run, program, appVars, backendVars, selected_state, directory,
                    all_statuses, profile_links, scan_i, visited, matcher_calls,
                    heading_calls, fetch, failure >>

\* Mutant of RecordSummary: a failed summary turns the row into an error row.
RecordSummary_FailsRecord ==
    /\ p_pc = "returned"
    /\ \E summary \in {"AI comment", "AI summary failed."} :
         /\ Consume(<< Stub("summary", summary) >>)
         /\ result_data' = [result_data EXCEPT
                              !.comments = [kind |-> summary, labels |-> << >>],
                              !.vs = IF summary = "AI summary failed."
                                       THEN "Error Processing" ELSE @]
    /\ p_pc' = "emitted"
    /\ UNCHANGED << outcomes, page_read, extraction >>
    /\ UNCHANGED << fnVars, first_run, program, appVars, backendVars, selected_state, directory,
                    all_statuses, profile_links, scan_i, visited, matcher_calls,
                    heading_calls, fetch, failure >>

\* app.py:326 and 332: the function returned; get_ai_summary (app.py:116-150)
\* gives the comment or its sentinel, and the row is put on results_q.
RecordSummary ==
    /\ p_pc = "returned"
    /\ \E summary \in {"AI comment", "AI summary failed."} :
         /\ Consume(<< Stub("summary", summary) >>)
         /\ result_data' = [result_data EXCEPT
                              !.comments = [kind |-> summary, labels |-> << >>]]
    /\ p_pc' = "emitted"
    /\ UNCHANGED << outcomes, page_read, extraction >>
    /\ UNCHANGED << fnVars, first_run, program, appVars, backendVars, selected_state, directory,
                    all_statuses, profile_links, scan_i, visited, matcher_calls,
                    heading_calls, fetch, failure >>

\* app.py:328-332: the function raised; the row keeps what was written into
\* it before the error and is put on results_q.
RecordExcept ==
    /\ p_pc = "raised"
    /\ result_data' = [result_data EXCEPT
                         !.comments = [kind |-> "A critical error occurred",
                                       labels |-> << >>]]
    /\ p_pc' = "emitted"
    /\ UNCHANGED << outcomes, page_read, extraction, stubs >>
    /\ UNCHANGED << fnVars, first_run, program, appVars, backendVars, selected_state, directory,
                    all_statuses, profile_links, scan_i, visited, matcher_calls,
                    heading_calls, fetch, failure >>

\* The same input row is processed once more (the file is verified again,
\* app.py:303-332): a fresh result_data, and the directory, the pages and the
\* summary call answering as they did the first time.
RecordRerun ==
    /\ program = "app"
    /\ p_pc = "emitted"
    /\ ~first_run.done
    /\ first_run' = [done |-> TRUE, stubs |-> stubs, result |-> result_data]
    /\ p_pc' = "start"
    /\ all_statuses' = << >>
    /\ profile_links' = << >>
    /\ scan_i' = 0
    /\ result_data' = UnsetResult
    /\ visited' = << >>
    /\ matcher_calls' = 0
    /\ heading_calls' = 0
    /\ fetch' = "pending"
    /\ failure' = "none"
    /\ outcomes' = << >>
    /\ page_read' = NoPage
    /\ extraction' = NotTried
    /\ stubs' = << >>
    /\ UNCHANGED << fnVars, program, appVars, backendVars, selected_state, directory >>

\* ------------------------------- backend.py: the pipeline of one record
\* A profile page as get_match_confidence reads it: whether a page email has
\* the handle of the CSV email, and whether each of the four name tests holds.
BackendPages ==
    [handle : BOOLEAN, last_email : BOOLEAN, first_email : BOOLEAN,
     last_website : BOOLEAN, first_website : BOOLEAN]

YesNo(b) == IF b THEN "Yes" ELSE "No"

\* The confidence dict of get_match_confidence (backend.py:62-65).
NoConfidence ==
    [exact |-> "No", last_email |-> "No", first_email |-> "No",
     last_website |-> "No", first_website |-> "No"]

\* result_data as run_verification_process creates it (backend.py:118-124);
\* link 0 is 'Not Found'.
BackendUnsetResult ==
    [vs |-> "Error Processing", disc |-> "Not Checked", link |-> 0,
     confidence |-> NoConfidence]

\* get_match_confidence (backend.py:61-88), the dict it returns.
MatchConfidence(page) ==
    IF page.handle
      THEN [exact |-> "Yes", last_email |-> "Yes", first_email |-> "Yes",
            last_website |-> "No", first_website |-> "No"]
      ELSE [exact |-> "No",
            last_email |-> YesNo(page.last_email),
            first_email |-> YesNo(page.first_email),
            last_website |-> YesNo(page.last_website),
            first_website |-> YesNo(page.first_website)]

\* sum(1 for v in confidence.values() if v == "Yes") (backend.py:87).
MatchScore(c) ==
    (IF c.exact = "Yes" THEN 1 ELSE 0)
    + (IF c.last_email = "Yes" THEN 1 ELSE 0)
    + (IF c.first_email = "Yes" THEN 1 ELSE 0)
    + (IF c.last_website = "Yes" THEN 1 ELSE 0)
    + (IF c.first_website = "Yes" THEN 1 ELSE 0)

\* Mutant of get_match_confidence: one component is enough.
get_match_confidence_AnyComponent(page) ==
    page.handle \/ MatchScore(MatchConfidence(page)) >= 1

\* get_match_confidence (backend.py:78 and 88), the flag it returns.
get_match_confidence(page) == page.handle \/ MatchScore(MatchConfidence(page)) >= 2

\* backend.py:146-153: 'Active' with an active row, else the first label,
\* else the default.
OverallStatus(statuses) ==
    IF \E k \in DOMAIN statuses : Lower(statuses[k]) = "active" THEN "Active"
    ELSE IF statuses # << >> THEN statuses[1]
    ELSE "Not Found"

\* backend.py:118-124: a fresh result_data for the record.
BackendRecordStart ==
    /\ program = "backend"
    /\ p_pc = "start"
    /\ result_data' = BackendUnsetResult
    /\ p_pc' = "b_search"
    /\ UNCHANGED << outcomes, page_read, extraction, stubs >>
    /\ UNCHANGED << fnVars, first_run, program, appVars, backendVars, selected_state, directory,
                    all_statuses, profile_links, scan_i, visited, matcher_calls,
                    heading_calls, fetch, failure >>

\* backend.py:127-134: open the search page and submit the name; a failure
\* goes to `except Exception` at line 180.
BackendSearch ==
    /\ p_pc = "b_search"
    /\ \E failed \in BOOLEAN :
         /\ p_pc' = IF failed THEN "b_raised" ELSE "b_notice"
         /\ failure' = IF failed THEN "other" ELSE failure
         /\ fetch' = IF failed THEN "failed" ELSE fetch
    /\ UNCHANGED << outcomes, page_read, extraction, stubs >>
    /\ UNCHANGED << fnVars, first_run, program, appVars, backendVars, selected_state, directory,
                    all_statuses, profile_links, scan_i, result_data, visited,
                    matcher_calls, heading_calls >>

\* backend.py:136-142: the "returned no results" notice appends the row and
\* goes on to the next record.
BackendNotice ==
    /\ p_pc = "b_notice"
    /\ IF directory.notice
         THEN /\ result_data' = [result_data EXCEPT !.vs = "Not Found on CalBar"]
              /\ fetch' = "no results"
              /\ p_pc' = "emitted"
         ELSE /\ p_pc' = "b_table"
              /\ UNCHANGED << result_data, fetch >>
    /\ UNCHANGED << outcomes, page_read, extraction, stubs >>
    /\ UNCHANGED << fnVars, first_run, program, appVars, backendVars, selected_state, directory,
                    all_statuses, profile_links, scan_i, visited, matcher_calls,
                    heading_calls, failure >>

\* backend.py:145-156, pass 1: wait for the table, read the labels and the
\* links of all rows, and set the status.  A table that never shows is a
\* TimeoutException for `except Exception` at line 180.
BackendReadTable ==
    /\ p_pc = "b_table"
    /\ \E shown \in BOOLEAN :
         IF ~shown
           THEN /\ p_pc' = "b_raised"
                /\ fetch' = "failed"
                /\ failure' = "not found or timeout"
                /\ UNCHANGED << all_statuses, profile_links, scan_i, result_data >>
           ELSE /\ all_statuses' = directory.rows
                /\ profile_links' = AllLinks(directory.rows)
                /\ fetch' = "rows"
                /\ result_data' = [result_data EXCEPT
                                     !.vs = OverallStatus(directory.rows)]
                /\ scan_i' = 1
                /\ p_pc' = "b_scan"
                /\ UNCHANGED failure
    /\ UNCHANGED << outcomes, page_read, extraction, stubs >>
    /\ UNCHANGED << fnVars, first_run, program, appVars, backendVars, selected_state, directory,
                    visited, matcher_calls, heading_calls >>

\* backend.py:160-175, pass 2: one turn of `for link in all_profile_links`.
\* A failed visit goes to `except Exception` at line 180; a confident match
\* ends the scan, its discipline lookup falling back to a sentinel string.
BackendScan ==
    /\ p_pc = "b_scan"
    /\ scan_i <= Len(profile_links)
    /\ visited' = Append(visited, profile_links[scan_i])
    /\ \E failed \in BOOLEAN :
         IF failed
           THEN /\ p_pc' = "b_raised"
                /\ failure' = "other"
                /\ outcomes' = Append(outcomes, "failed")
                /\ UNCHANGED << result_data, scan_i, matcher_calls, extraction >>
           ELSE \E page \in BackendPages :
                  /\ UNCHANGED failure
                  /\ matcher_calls' = matcher_calls + 1
                  /\ IF get_match_confidence(page)
                       THEN /\ \E lookup \in {"No", "Yes", "failed"} :
                                 /\ result_data' =
                                      [result_data EXCEPT
                                         !.confidence = MatchConfidence(page),
                                         !.link = profile_links[scan_i],
                                         !.disc = Recovered(lookup, "Discipline Info Not Found")]
                                 /\ extraction' = [extraction EXCEPT !.disc = LookupEnd(lookup)]
                            /\ outcomes' = Append(outcomes, "matched")
                            /\ p_pc' = "b_end"
                            /\ UNCHANGED scan_i
                       ELSE /\ scan_i' = scan_i + 1
                            /\ outcomes' = Append(outcomes, "no match")
                            /\ UNCHANGED << result_data, p_pc, extraction >>
    /\ UNCHANGED << page_read, stubs >>
    /\ UNCHANGED << fnVars, first_run, program, appVars, backendVars, selected_state, directory,
                    all_statuses, profile_links, heading_calls, fetch >>

\* backend.py:177-179: the scan ended with no match.
BackendNoMatch ==
    /\ p_pc = "b_scan"
    /\ scan_i > Len(profile_links)
    /\ result_data' = [result_data EXCEPT !.disc = "Match Not Confirmed"]
    /\ p_pc' = "b_end"
    /\ UNCHANGED << outcomes, page_read, extraction, stubs >>
    /\ UNCHANGED << fnVars, first_run, program, appVars, backendVars, selected_state, directory,
                    all_statuses, profile_links, scan_i, visited, matcher_calls,
                    heading_calls, fetch, failure >>

\* backend.py:183: the try block ended; the row is appended.
BackendAppend ==
    /\ p_pc = "b_end"
    /\ p_pc' = "emitted"
    /\ UNCHANGED << outcomes, page_read, extraction, stubs >>
    /\ UNCHANGED << fnVars, first_run, program, appVars, backendVars, selected_state, directory,
                    all_statuses, profile_links, scan_i, result_data, visited,
                    matcher_calls, heading_calls, fetch, failure >>

\* backend.py:180-183: `except Exception` logs the error; the row is
\* appended as the try block left it.
BackendExcept ==
    /\ p_pc = "b_raised"
    /\ p_pc' = "emitted"
    /\ UNCHANGED << outcomes, page_read, extraction, stubs >>
    /\ UNCHANGED << fnVars, first_run, program, appVars, backendVars, selected_state, directory,
                    all_statuses, profile_links, scan_i, result_data, visited,
                    matcher_calls, heading_calls, fetch, failure >>

\* No record is in the pipeline.
PipeIdle ==
    /\ selected_state = "california"
    /\ directory = [notice |-> TRUE, rows |-> << >>]
    /\ p_pc = "off"
    /\ all_statuses = << >>
    /\ profile_links = << >>
    /\ scan_i = 0
    /\ result_data = UnsetResult
    /\ visited = << >>
    /\ matcher_calls = 0
    /\ heading_calls = 0
    /\ fetch = "pending"
    /\ failure = "none"
    /\ outcomes = << >>
    /\ page_read = NoPage
    /\ extraction = NotTried
    /\ stubs = << >>
    /\ first_run = NoRun

\* A record enters the pipeline: the state the user selected (app.py:348-349)
\* and the directory's answer to the record's search.
PipeInit ==
    /\ selected_state \in {"california", "georgia"}
    /\ directory \in IF selected_state = "georgia" THEN GeorgiaDirectories
                                                   ELSE Directories
    /\ p_pc = "start"
    /\ all_statuses = << >>
    /\ profile_links = << >>
    /\ scan_i = 0
    /\ result_data = UnsetResult
    /\ visited = << >>
    /\ matcher_calls = 0
    /\ heading_calls = 0
    /\ fetch = "pending"
    /\ failure = "none"
    /\ outcomes = << >>
    /\ page_read = NoPage
    /\ extraction = NotTried
    /\ stubs = << >>
    /\ first_run = NoRun

PipeNext ==
    \/ RecordStart
    \/ CaliforniaSearch
    \/ CaliforniaNotice
    \/ CaliforniaReadTable
    \/ CaliforniaScan
    \/ CaliforniaExhausted
    \/ GeorgiaSearch
    \/ GeorgiaLinks
    \/ GeorgiaScan
    \/ GeorgiaExhausted
    \/ RecordSummary
    \/ RecordExcept
    \/ BackendRecordStart
    \/ BackendSearch
    \/ BackendNotice
    \/ BackendReadTable
    \/ BackendScan
    \/ BackendNoMatch
    \/ BackendAppend
    \/ BackendExcept

\* ------------------------------ the name and matching functions, on text
\* A Python str is modelled as the sequence of its characters.
MaxNameLen == 6

MaxPageWords == 3

Strings(chars, n) == UNION {[1..k -> chars] : k \in 0..n}

\* str.lower() on one character of the alphabets used here.
LowerChar(c) ==
    CASE c = "J" -> "j"
      [] c = "R" -> "r"
      [] OTHER -> c

\* str.lower()
LowerStr(s) == [k \in DOMAIN s |-> LowerChar(s[k])]

\* `sub in s` on two strs.
In(sub, s) ==
    \E i \in 0..(Len(s) - Len(sub)) : SubSeq(s, i + 1, i + Len(sub)) = sub

\* s[:n]
Take(s, n) == SubSeq(s, 1, IF n < Len(s) THEN n ELSE Len(s))

\* str.strip(): the text between the first and the last character that is
\* not white space.
Strip(s) ==
    LET Inked == {k \in DOMAIN s : s[k] # " "}
    IN IF Inked = {} THEN << >>
       ELSE SubSeq(s, CHOOSE k \in Inked : \A j \in Inked : k <= j,
                      CHOOSE k \in Inked : \A j \in Inked : j <= k)

\* str.replace(c, '')
RemoveChar(s, c) == SelectSeq(s, LAMBDA x : x # c)

\* str.split(): the maximal runs of characters that are not white space.
Split(s) ==
    LET F[k \in 0..Len(s)] ==
          IF k = 0 THEN << >>
          ELSE IF s[k] = " " THEN F[k - 1]
          ELSE IF k > 1 /\ s[k - 1] # " "
                 THEN [F[k - 1] EXCEPT ![Len(F[k - 1])] = Append(@, s[k])]
          ELSE Append(F[k - 1], << s[k] >>)
    IN F[Len(s)]

\* re.split(r'[.\s]', s): the pieces between single separator characters,
\* empty pieces included.
SplitOnDotOrSpace(s) ==
    LET F[k \in 0..Len(s)] ==
          IF k = 0 THEN << << >> >>
          ELSE IF s[k] \in {".", " "} THEN Append(F[k - 1], << >>)
          ELSE [F[k - 1] EXCEPT ![Len(F[k - 1])] = Append(@, s[k])]
    IN F[Len(s)]

\* The alternatives of the suffix pattern of app.py:68.
Suffixes ==
    { << "j", "r" >>, << "s", "r" >>, << "i", "i" >>, << "i", "i", "i" >>,
      << "i", "v" >>, << "e", "s", "q" >> }

\* re.sub(r',?\s+(jr|sr|ii|iii|iv|esq)\.?$', '', name_str, flags=re.I)
\* (app.py:68): a last word that is a suffix, with or without a full stop,
\* goes with the white space before it and a comma before that.
StripSuffix(s) ==
    LET n == Len(s)
        Ends == {k \in 1..(n - 1) :
                   /\ s[n - k] = " "
                   /\ \/ LowerStr(SubSeq(s, n - k + 1, n)) \in Suffixes
                      \/ /\ s[n] = "."
                         /\ LowerStr(SubSeq(s, n - k + 1, n - 1)) \in Suffixes}
    IN IF Ends = {} THEN s
       ELSE LET k == CHOOSE e \in Ends : TRUE
                run == CHOOSE i \in 1..(n - k) :
                         /\ \A j \in i..(n - k) : s[j] = " "
                         /\ i > 1 => s[i - 1] # " "
                from == IF run > 1 /\ s[run - 1] = "," THEN run - 1 ELSE run
            IN SubSeq(s, 1, from - 1)

\* definitive_clean_name (app.py:66-74) on a str.
definitive_clean_name(name_str) ==
    LET parts == Split(RemoveChar(Strip(StripSuffix(name_str)), "."))
    IN IF parts = << >> THEN << >>
       ELSE IF Len(parts[1]) = 1 /\ Len(parts) > 1 THEN parts[2]
       ELSE parts[1]

\* get_name_parts (app.py:76-79) on the two fields of a row.
get_name_parts(first, last) ==
    << LowerStr(definitive_clean_name(first)),
       LowerStr(IF Strip(last) # << >> THEN Split(Strip(last))[1] ELSE << >>) >>

\* get_name_parts_for_matching (backend.py:56-59).
get_name_parts_for_matching(first_name, last_name) ==
    << LowerStr(SplitOnDotOrSpace(first_name)[1]),
       LowerStr(SplitOnDotOrSpace(last_name)[Len(SplitOnDotOrSpace(last_name))]) >>

\* The characters [\w\.-] of the e-mail pattern (app.py:87, backend.py:66),
\* among the characters of the page texts used here.
IsEmailChar(c) == c \notin {" ", "@", ":"}

\* re.findall(r'[\w\.-]+@[\w\.-]+', page_text) from position `from` on: the
\* matches from left to right, each as long as it can be, none overlapping.
RECURSIVE FindEmails(_, _)
FindEmails(s, from) ==
    LET Ats == {p \in (from + 1)..(Len(s) - 1) :
                  s[p] = "@" /\ IsEmailChar(s[p - 1]) /\ IsEmailChar(s[p + 1])}
    IN IF Ats = {} THEN << >>
       ELSE LET p == CHOOSE a \in Ats : \A b \in Ats : a <= b
                start == CHOOSE i \in from..(p - 1) :
                           /\ \A j \in i..(p - 1) : IsEmailChar(s[j])
                           /\ i > from => ~IsEmailChar(s[i - 1])
                end == CHOOSE i \in (p + 1)..Len(s) :
                         /\ \A j \in (p + 1)..i : IsEmailChar(s[j])
                         /\ i < Len(s) => ~IsEmailChar(s[i + 1])
            IN << SubSeq(s, start, end) >> \o FindEmails(s, end + 1)

page_emails(page_text) == FindEmails(page_text, 1)

WebsiteLabel == << "w", "e", "b", "s", "i", "t", "e", ":" >>

\* No website was found on the page (None).
NoWebsite == [found |-> FALSE, text |-> << >>]

\* re.search(r'Website:\s*(\S+)', page_text, re.IGNORECASE) and
\* group(1).lower() (app.py:88-89, backend.py:67-69): the word after the
\* first "Website:" that has one.  The page texts used here are body text
\* in lower case, without the anchor tag of the first alternative.
page_website(page_text) ==
    LET n == Len(page_text)
        Word(i) == {j \in (i + 8)..n :
                      /\ page_text[j] # " "
                      /\ \A k \in (i + 8)..(j - 1) : page_text[k] = " "}
        Labels8 == {i \in 1..(n - 8) :
                      /\ SubSeq(page_text, i, i + 7) = WebsiteLabel
                      /\ Word(i) # {}}
    IN IF Labels8 = {} THEN NoWebsite
       ELSE LET i == CHOOSE a \in Labels8 : \A b \in Labels8 : a <= b
                j == CHOOSE w \in Word(i) : TRUE
                e == CHOOSE k \in j..n :
                       /\ \A m \in j..k : page_text[m] # " "
                       /\ k < n => page_text[k + 1] = " "
            IN [found |-> TRUE, text |-> LowerStr(SubSeq(page_text, j, e))]

\* The tests of get_match_signals (app.py:84, 91-96, 98-102) on a page text;
\* the headings are not its business.
SignalTests(name_parts, firm_name, page_text) ==
    LET first == name_parts[1]
        last == name_parts[2]
        emails == page_emails(page_text)
        website == page_website(page_text)
    IN [firm |-> firm_name # << >> /\ In(firm_name, page_text),
        email |-> \E k \in DOMAIN emails :
                    In(last, emails[k]) /\ In(Take(first, 4), emails[k]),
        website |-> /\ website.found
                    /\ In(last, website.text)
                    /\ In(Take(first, 4), website.text),
        heading |-> FALSE]

\* csv_email.split('@')[0] if '@' in csv_email else None (backend.py:71); an
\* empty handle counts as none at line 72.
EmailHandle(email) ==
    IF \E k \in DOMAIN email : email[k] = "@"
      THEN SubSeq(email, 1, (CHOOSE k \in DOMAIN email :
                               email[k] = "@" /\ \A j \in 1..(k - 1) : email[j] # "@") - 1)
      ELSE << >>

\* The tests of get_match_confidence (backend.py:71-85) on a page text.
ConfidenceTests(first_name_part, last_name_part, csv_email, page_text) ==
    LET emails == page_emails(page_text)
        website == page_website(page_text)
    IN [handle |-> /\ EmailHandle(csv_email) # << >>
                   /\ \E k \in DOMAIN emails :
                        EmailHandle(emails[k]) = EmailHandle(csv_email),
        last_email |-> \E k \in DOMAIN emails : In(last_name_part, emails[k]),
        first_email |-> \E k \in DOMAIN emails : In(Take(first_name_part, 3), emails[k]),
        last_website |-> website.found /\ In(last_name_part, website.text),
        first_website |-> website.found /\ In(Take(first_name_part, 3), website.text)]

\* ---- single calls of the four functions, and the arguments they get
\* Raw name fields: every text of at most MaxNameLen of these characters.
NameChars == {"J", "r", " ", "."}

NameFields == Strings(NameChars, MaxNameLen)

LastNameFields == {<< "r", " ", "J", "r" >>}

\* Name tokens as the matchers receive them.
FirstTokens == {<< >>, << "a", "l" >>, << "a", "l", "b", "e", "r" >>}

LastTokens == {<< >>, << "n", "g" >>}

FirmNames == {<< >>, << "k", "w" >>}

CsvEmails == {<< >>, << "@", "x" >>, << "a", "l", "@", "x" >>}

\* Words of a profile page: the firm, e-mail addresses, the website label
\* and website names.
PageWords ==
    { << "k", "w" >>,
      << "a", "l", "@", "x" >>,
      << "a", "l", "@", "n", "g" >>,
      WebsiteLabel,
      << "a", "l", "n", "g", ".", "x" >> }

\* ' '.join(words)
Join(words) ==
    LET F[k \in 0..Len(words)] ==
          IF k = 0 THEN << >>
          ELSE IF k = 1 THEN words[1]
          ELSE F[k - 1] \o << " " >> \o words[k]
    IN F[Len(words)]

PageTexts ==
    {Join(ws) : ws \in UNION {[1..n -> PageWords] : n \in 0..MaxPageWords}}

NoCall ==
    [fn |-> "none", first_name |-> << >>, last_name |-> << >>,
     firm_name |-> << >>, csv_email |-> << >>, page_text |-> << >>]

NoReturn == [done |-> FALSE]

\* get_name_parts(row) (app.py:76-79).
CallNameParts ==
    /\ fn_call.fn = "get_name_parts"
    /\ ~fn_ret.done
    /\ fn_ret' = [done |-> TRUE,
                  value |-> get_name_parts(fn_call.first_name, fn_call.last_name)]
    /\ UNCHANGED << fn_call, program, appVars, backendVars, pipeVars >>

\* get_name_parts_for_matching(first_name, last_name) (backend.py:56-59).
CallNamePartsForMatching ==
    /\ fn_call.fn = "get_name_parts_for_matching"
    /\ ~fn_ret.done
    /\ fn_ret' = [done |-> TRUE,
                  value |-> get_name_parts_for_matching(fn_call.first_name,
                                                        fn_call.last_name)]
    /\ UNCHANGED << fn_call, program, appVars, backendVars, pipeVars >>

\* get_match_signals(name_parts, firm_name, page_text) (app.py:81-104).
CallMatchSignals ==
    /\ fn_call.fn = "get_match_signals"
    /\ ~fn_ret.done
    /\ fn_ret' = [done |-> TRUE,
                  value |-> get_match_signals(
                              SignalTests(<< fn_call.first_name, fn_call.last_name >>,
                                          fn_call.firm_name, fn_call.page_text))]
    /\ UNCHANGED << fn_call, program, appVars, backendVars, pipeVars >>

\* get_match_confidence(first_name_part, last_name_part, csv_email,
\* page_text) (backend.py:61-88): the flag and the dict.
CallMatchConfidence ==
    /\ fn_call.fn = "get_match_confidence"
    /\ ~fn_ret.done
    /\ LET page == ConfidenceTests(fn_call.first_name, fn_call.last_name,
                                   fn_call.csv_email, fn_call.page_text)
       IN fn_ret' = [done |-> TRUE,
                     is_match |-> get_match_confidence(page),
                     confidence |-> MatchConfidence(page)]
    /\ UNCHANGED << fn_call, program, appVars, backendVars, pipeVars >>

\* No function is called on its own.
FnIdle ==
    /\ fn_call = NoCall
    /\ fn_ret = NoReturn

\* The calls that are made: the two name functions on every raw first-name
\* field, the two matchers on every page text.
FnInit ==
    /\ fn_ret = NoReturn
    /\ \/ \E fn \in {"get_name_parts", "get_name_parts_for_matching"},
              f \in NameFields, l \in LastNameFields :
             fn_call = [NoCall EXCEPT !.fn = fn, !.first_name = f, !.last_name = l]
       \/ \E f \in FirstTokens, l \in LastTokens, firm \in FirmNames, t \in PageTexts :
             fn_call = [NoCall EXCEPT !.fn = "get_match_signals", !.first_name = f,
                                      !.last_name = l, !.firm_name = firm,
                                      !.page_text = t]
       \/ \E f \in FirstTokens, l \in LastTokens, e \in CsvEmails, t \in PageTexts :
             fn_call = [NoCall EXCEPT !.fn = "get_match_confidence", !.first_name = f,
                                      !.last_name = l, !.csv_email = e,
                                      !.page_text = t]

FnNext ==
    \/ CallNameParts
    \/ CallNamePartsForMatching
    \/ CallMatchSignals
    \/ CallMatchConfidence

\* app.py:38-45, before any button was pressed.
AppInit ==
    /\ log_queue = << >>
    /\ results_queue = << >>
    /\ progress_queue = << >>
    /\ stop_event = FALSE
    /\ process_running = FALSE
    /\ log_messages = << "Welcome!" >>
    /\ results_df = << >>
    /\ progress = << 0, 0 >>
    /\ obs_pc = "idle"
    /\ w_pc = "idle"
    /\ uploaded_file = NoFile
    /\ num_batches = 0
    /\ batch_num = 0
    /\ index = 0
    /\ driver = 0
    /\ live = {}
    /\ emitted = << >>
    /\ sessions = 0
    /\ cooldowns = {}
    /\ stop_mark = -1
    /\ stop_seen = FALSE

AppNext ==
    \/ \E f \in Files : StartVerification(f)
    \/ StopProcess
    \/ Poll
    \/ Worker

Init ==
    /\ program \in Programs
    /\ AppInit
    /\ BackendInit
    /\ PipeIdle
    /\ FnIdle

Next ==
    \/ AppNext
    \/ BackendNext

Spec == Init /\ [][Next]_vars

\* One record through the pipeline of app.py or of backend.py (which has the
\* CalBar search only).
InitPipe ==
    /\ program \in Programs
    /\ AppInit
    /\ BackendInit
    /\ PipeInit
    /\ FnIdle
    /\ program = "backend" => selected_state = "california"

SpecPipe == InitPipe /\ [][PipeNext]_vars

\* One row through the pipeline of app.py, twice.
InitTwice ==
    /\ InitPipe
    /\ program = "app"

TwiceNext ==
    \/ RecordStart
    \/ CaliforniaSearch
    \/ CaliforniaNotice
    \/ CaliforniaReadTable
    \/ CaliforniaScan
    \/ CaliforniaExhausted
    \/ GeorgiaSearch
    \/ GeorgiaLinks
    \/ GeorgiaScan
    \/ GeorgiaExhausted
    \/ RecordSummary
    \/ RecordExcept
    \/ RecordRerun

SpecTwice == InitTwice /\ [][TwiceNext]_vars

\* One call of a name function or of a matcher, on text.
InitFn ==
    /\ program \in Programs
    /\ AppInit
    /\ BackendInit
    /\ PipeIdle
    /\ FnInit
    /\ program = "app" <=> fn_call.fn \in {"get_name_parts", "get_match_signals"}

SpecFn == InitFn /\ [][FnNext]_vars

\* The threads run: a worker thread that can take a step takes one (every
\* navigation call returns or times out), and so does the session's script
\* while process_running makes it poll once a second.
FairSpec ==
    /\ Init
    /\ [][Next]_vars
    /\ WF_vars(Worker)
    /\ WF_vars(Poll)
    /\ \A w \in Requests : WF_vars(Run(w))


\* ---------------------------------------------------------------- properties
\* The row indices of a sequence of rows.
Indices(rows) == [k \in 1..Len(rows) |-> rows[k].index]

\* The run of app.py is over for the observer: the worker has put its 'done'
\* marker and the polling block has read it.
ObserverStopped == program = "app" /\ w_pc = "done" /\ ~process_running

\* C1: hand-off from worker to observer loses nothing: when the observer has
\* read the 'done' marker and cleared process_running, every row the worker
\* put on results_queue is in results_df and none is left in the queue.
C1_HandOffLosesNothing ==
    ObserverStopped => (results_queue = << >> /\ results_df = emitted)

\* C2: a single record's failure never aborts the batch.  Every row emitted so
\* far is the row of the next record in input order, a record that raised
\* included; and with the stop flag never set, the columns present and every
\* session started, the finished worker has emitted one row per input record.
\* The same for each thread of backend.py, whose stop flag is is_running.
C2_FailureNeverAbortsBatch ==
    /\ program = "app" =>
         /\ Indices(emitted) = [k \in 1..Len(emitted) |-> k - 1]
         /\ (w_pc = "done" /\ uploaded_file.readable /\ uploaded_file.cols_ok
               /\ ~stop_event /\ sessions = num_batches)
              => Len(emitted) = uploaded_file.total
    /\ program = "backend" =>
         \A w \in Requests :
           /\ Indices(b_emitted[w]) = [k \in 1..Len(b_emitted[w]) |-> k - 1]
           /\ b_raised[w] # NoRecord => b_raised[w] < Len(b_emitted[w])
           /\ (b_pc[w] = "done" /\ b_driver[w] = "quit" /\ ~b_cancelled[w])
                => Len(b_emitted[w]) = b_df[w].total

\* C2's case: the worker of app.py is done, a record that raised has its row,
\* and the rows of the records after it follow.
C2_Witness ==
    /\ program = "app"
    /\ w_pc = "done"
    /\ ~stop_event
    /\ Len(emitted) = uploaded_file.total
    /\ \E k \in 1..Len(emitted) : emitted[k].raised /\ k < Len(emitted)

\* C3: results reach the output in input-record order: the rows were put on
\* the queue by increasing record index, and after any number of polling
\* rounds results_df followed by the queue's rows is that sequence.
C3_InputOrder ==
    program = "app" =>
      /\ \A j, k \in 1..Len(emitted) : j < k => emitted[j].index < emitted[k].index
      /\ results_df \o results_queue = emitted

\* C3's case: rows of an earlier polling round are held and later rows wait
\* in the queue.
C3_Witness ==
    /\ program = "app"
    /\ Len(results_df) >= 2
    /\ results_queue # << >>
    /\ obs_pc = "results"

\* C4, the state part: after Stop at most the one record in flight still
\* emits its row; the worker that has read the flag as set is in no record,
\* session setup or cool-down; and when the run is over every row emitted
\* before Stop is in results_df.
C4_StopInvariant ==
    program = "app" =>
      /\ stop_mark >= 0 => Len(emitted) <= stop_mark + 1
      /\ stop_seen => w_pc \in {"batch_end", "batch_check", "finally", "done"}
      /\ (ObserverStopped /\ stop_mark >= 0) =>
            /\ Len(results_df) >= stop_mark
            /\ SubSeq(results_df, 1, stop_mark) = SubSeq(emitted, 1, stop_mark)

\* C4, the step part: once the worker has read the flag as set, no step
\* starts a record, emits a row, makes a session or starts a cool-down.
C4_StopStep ==
    (stop_seen /\ stop_seen') =>
      /\ emitted' = emitted
      /\ sessions' = sessions
      /\ cooldowns' = cooldowns
      /\ w_pc' \notin {"setup_driver", "in_record", "cooldown"}

\* C4: cancellation is cooperative: once the stop flag is set the worker
\* starts no record after its next check point (at most the record in flight
\* completes), starts no batch and no session, and the rows emitted before
\* the flag was set are kept.
C4_Cancellation == []C4_StopInvariant /\ [][C4_StopStep]_vars

\* C4's case: Stop was pressed with a row already emitted and a record in
\* flight, that record's row was emitted too, and the run is over.
C4_Witness ==
    /\ ObserverStopped
    /\ stop_seen
    /\ stop_mark = 1
    /\ Len(emitted) = 2
    /\ uploaded_file.total = 3


\* The positions of the 'done' marker in progress_queue.
DoneMarkers == {k \in 1..Len(progress_queue) : progress_queue[k].kind = "done"}

\* C5, the state part: at most one 'done' marker, put by the finished worker
\* as the last message of progress_queue and waiting there until the observer
\* reads it; the finished worker holds no live session.
C5_MarkerInvariant ==
    program = "app" =>
      /\ Cardinality(DoneMarkers) <= 1
      /\ DoneMarkers # {} => (Len(progress_queue) \in DoneMarkers /\ w_pc = "done")
      /\ (w_pc = "done" /\ process_running) => DoneMarkers # {}
      /\ w_pc = "done" => live = {}

\* C5, backend.py: the step that ends a thread leaves is_running False.
C5_BackendStep ==
    \A w \in Requests :
      (b_pc[w] # "done" /\ b_pc'[w] = "done") => ~status'.is_running

\* C5: the worker always terminates cleanly: on every path the worker of
\* app.py releases its session and puts exactly one 'done' marker as its last
\* message, after which the observer clears process_running; every thread of
\* backend.py ends, and ends with is_running False.
C5_Termination ==
    /\ []C5_MarkerInvariant
    /\ [][C5_BackendStep]_vars
    /\ (program = "app" /\ w_pc = "read_csv") ~> (w_pc = "done")
    /\ (program = "app" /\ w_pc = "done" /\ process_running) ~> ~process_running
    /\ \A w \in Requests : (b_pc[w] = "read_csv") ~> (b_pc[w] = "done")

\* C5's case: a session failed to start after an earlier batch, the worker
\* ended all the same and the observer has read its marker.
C5_Witness ==
    /\ ObserverStopped
    /\ ~stop_event
    /\ sessions >= 1
    /\ sessions < num_batches
    /\ live = {}

\* C6: the session lifecycle of app.py: at most one session is live; a batch's
\* session is made with no other live and is quit before the cool-down and the
\* next batch; a record is processed with the live session of its own batch;
\* the finished worker leaves no session live.
C6_SessionLifecycle ==
    program = "app" =>
      /\ Cardinality(live) <= 1
      /\ w_pc \in {"setup_driver", "cooldown", "done"} => live = {}
      /\ w_pc \in {"record_check", "in_record"} =>
           (live = {driver} /\ driver = batch_num + 1)
      /\ \A k \in 1..Len(emitted) :
           emitted[k].session = BatchOf(emitted[k].index) + 1

\* C6's case: two batches ran, each with its own session, and the worker is done.
C6_Witness ==
    /\ program = "app"
    /\ w_pc = "done"
    /\ sessions = 2
    /\ Len(emitted) = 3
    /\ emitted[1].session = 1
    /\ emitted[3].session = 2

\* C7, the state part: every batch after the first started after the
\* cool-down that follows the batch before it; the pause runs with the
\* session quit and never follows the last batch.
C7_CoolDownInvariant ==
    program = "app" =>
      /\ \A b \in 1..(sessions - 1) : (b - 1) \in cooldowns
      /\ (w_pc = "setup_driver" /\ batch_num > 0) => (batch_num - 1) \in cooldowns
      /\ w_pc = "cooldown" => (live = {} /\ batch_num < num_batches - 1)
      /\ \A b \in cooldowns : b < num_batches - 1

\* C7, the step part: no cool-down pause starts once the stop flag is set.
C7_CoolDownStep ==
    (w_pc # "cooldown" /\ w_pc' = "cooldown") => ~stop_event

\* C7: mandatory cool-down between batches: batch k+1 starts only after a
\* pause that followed the teardown of batch k's session; no pause after the
\* last batch or once the stop flag is set.
C7_CoolDown == []C7_CoolDownInvariant /\ [][C7_CoolDownStep]_vars

\* C7's case: the second batch is running after the cool-down.
C7_Witness ==
    /\ program = "app"
    /\ w_pc = "in_record"
    /\ sessions = 2
    /\ cooldowns = {0}

\* The worker's report of the missing columns has been put on the log.
MissingColumnsReported ==
    \E k \in DOMAIN (log_messages \o log_queue) :
      (log_messages \o log_queue)[k] = "ERROR: CSV is missing required columns"

\* C8, the state part: with a required column missing the worker of app.py
\* goes from reading the file to its end with the error reported, no session,
\* no record started and no row; a thread of backend.py likewise.
C8_PreflightInvariant ==
    /\ (program = "app" /\ uploaded_file.readable /\ ~uploaded_file.cols_ok) =>
         /\ w_pc \in {"read_csv", "finally", "done"}
         /\ w_pc # "read_csv" => MissingColumnsReported
         /\ sessions = 0
         /\ emitted = << >>
         /\ results_queue = << >>
         /\ results_df = << >>
    /\ \A w \in Requests :
         (b_df[w].readable /\ ~b_df[w].cols_ok) =>
           /\ b_pc[w] \in {"fatal", "done"}
           /\ b_driver[w] = "none"
           /\ b_index[w] = 0
           /\ b_emitted[w] = << >>

\* C8, backend.py: the thread that ends from its fatal error has logged it.
C8_BackendStep ==
    \A w \in Requests :
      (b_pc[w] = "fatal" /\ b_pc'[w] = "done") =>
        status'.log[Len(status'.log)] = "--- FATAL ERROR ---"

\* C8: a missing required column is a fatal pre-flight error: it is reported
\* before any record is processed, with no session, no search and no row.
C8_Preflight == []C8_PreflightInvariant /\ [][C8_BackendStep]_vars

\* C8's case: a three-row file without the columns; the worker is done and
\* the observer shows the error.
C8_Witness ==
    /\ ObserverStopped
    /\ uploaded_file.readable
    /\ ~uploaded_file.cols_ok
    /\ uploaded_file.total = 3
    /\ MissingColumnsReported
    /\ log_queue = << >>

\* The search gave no candidate row: the no-results notice (or, for Georgia,
\* no profile link within the timeout), or a result table with zero rows.
ZeroCandidates ==
    \/ fetch = "no results"
    \/ fetch = "rows" /\ directory.rows = << >>

\* C9: zero candidates end the record at once: the row of a record whose
\* search gave no candidate row has Verified Status 'Not Found on CalBar' or
\* 'Not Found on GA Bar', no scan took place and the matcher was never called.
C9_ZeroCandidates ==
    (p_pc = "emitted" /\ ZeroCandidates) =>
      /\ result_data.vs = IF selected_state = "california"
                            THEN "Not Found on CalBar"
                            ELSE "Not Found on GA Bar"
      /\ visited = << >>
      /\ scan_i = 0
      /\ matcher_calls = 0
      /\ heading_calls = 0

\* Some row of the result table is labelled 'active' in any case.
HasActive(rows) == \E k \in DOMAIN rows : Lower(rows[k]) = "active"

\* C10, the state part: with an active row in the table read, only rows
\* labelled active are kept for the scan, visited and matched, and the status
\* stays 'Active' unless the handler of app.py:214-215 replaced it after a
\* visit that was not found or timed out.
C10_NarrowingInvariant ==
    (program = "app" /\ selected_state = "california" /\ fetch = "rows"
       /\ HasActive(directory.rows)) =>
      /\ \A k \in DOMAIN profile_links : Lower(directory.rows[profile_links[k]]) = "active"
      /\ \A k \in DOMAIN visited : Lower(directory.rows[visited[k]]) = "active"
      /\ matcher_calls <= Len(visited)
      /\ \/ result_data.vs = "Active"
         \/ failure = "not found or timeout" /\ result_data.vs = "Search Error (CA)"

\* C10, the step part: reading a table with an active row resolves the status
\* to 'Active' before the scan.
C10_ResolveStep ==
    (p_pc = "ca_table" /\ fetch' = "rows" /\ HasActive(directory.rows)) =>
      (result_data'.vs = "Active" /\ p_pc' = "ca_scan")

\* C10: active narrowing in process_california_attorney: if any candidate's
\* label is 'active' in any case, the resolved status is 'Active' and only
\* active-labelled candidates are visited and matched.
C10_ActiveNarrowing == []C10_NarrowingInvariant /\ [][C10_ResolveStep]_vars

\* C10's case: a table with a non-active row before two active ones; both
\* active profiles were visited, the first did not match, the second did.
C10_Witness ==
    /\ p_pc = "emitted"
    /\ selected_state = "california"
    /\ directory.rows = << "Inactive", "ACTIVE", "Active" >>
    /\ visited = << 2, 3 >>
    /\ matcher_calls = 2
    /\ result_data.vs = "Active"
    /\ result_data.link = 3

\* The CalBar search gave candidate rows and none is labelled active.
NoneActive ==
    /\ selected_state = "california"
    /\ fetch = "rows"
    /\ directory.rows # << >>
    /\ ~HasActive(directory.rows)

\* C11: a non-active status is terminal in both CalBar pipelines: with
\* candidates of which none is labelled active no profile is visited, the
\* matcher is not called, and the row ends with Discipline Found
\* 'Not Applicable (Non-Active)'.
C11_NonActiveTerminal ==
    NoneActive =>
      /\ visited = << >>
      /\ matcher_calls = 0
      /\ p_pc = "emitted" => result_data.disc = "Not Applicable (Non-Active)"

\* The rank of a label in the precedence order deceased, disbarred,
\* resigned, suspended, inactive; every other label ranks after them.
Rank(s) ==
    CASE Lower(s) = "deceased" -> 0
      [] Lower(s) = "disbarred" -> 1
      [] Lower(s) = "resigned" -> 2
      [] Lower(s) = "suspended" -> 3
      [] Lower(s) = "inactive" -> 4
      [] OTHER -> 5

\* C12: precedence winner: with no active label, the Verified Status that
\* process_california_attorney chose is a label of the candidate list whose
\* rank is the lowest of all labels present, in whatever order the rows came.
C12_PrecedenceWinner ==
    (program = "app" /\ NoneActive) =>
      /\ result_data.vs \in Distinct(directory.rows)
      /\ \A t \in Distinct(directory.rows) : Rank(result_data.vs) <= Rank(t)

\* C12's case: the label of highest precedence came last, after a listed
\* label and one that is not in the precedence order.
C12_Witness ==
    /\ program = "app"
    /\ p_pc = "emitted"
    /\ directory.rows = << "Inactive", "Judge", "Deceased" >>
    /\ result_data.vs = "Deceased"

\* l comes no later than r in the lexicographic order of raw labels.
LexLeq(l, r) ==
    \E i, j \in DOMAIN LabelOrder :
      LabelOrder[i] = l /\ LabelOrder[j] = r /\ i <= j

\* C13: precedence tie-break: with no active label, of the labels that share
\* the lowest rank the Verified Status chosen is the lexicographically
\* smallest raw label.
C13_PrecedenceTieBreak ==
    (program = "app" /\ NoneActive) =>
      \A t \in Distinct(directory.rows) :
        Rank(t) = Rank(result_data.vs) => LexLeq(result_data.vs, t)

\* C14: comment on mixed non-active statuses: the row emitted for a record
\* whose candidates carry more than one distinct non-active label has the
\* comment that lists the distinct labels, sorted, and the precedence winner
\* as its Verified Status.
C14_MixedStatusComment ==
    (program = "app" /\ NoneActive /\ p_pc = "emitted"
       /\ Cardinality(Distinct(directory.rows)) > 1) =>
      /\ result_data.comments.kind = "Multiple non-active statuses found"
      /\ result_data.comments.labels = SortedDistinct(directory.rows)
      /\ \A t \in Distinct(directory.rows) : Rank(result_data.vs) <= Rank(t)

\* C15: first match wins, in fetch order (CA and GA in app.py, backend.py):
\* the links to scan are in row order, the visits follow them with no gap,
\* every visit before the last ended with no match, a match is the last
\* visit and its link is the row's Profile Link, and with a match recorded
\* the scan is over.
C15_FirstMatchWins ==
    /\ \A j, k \in DOMAIN profile_links : j < k => profile_links[j] < profile_links[k]
    /\ Len(visited) <= Len(profile_links)
    /\ \A k \in DOMAIN visited : visited[k] = profile_links[k]
    /\ Len(outcomes) = Len(visited)
    /\ \A k \in DOMAIN outcomes : k < Len(outcomes) => outcomes[k] = "no match"
    /\ \A k \in DOMAIN outcomes :
         outcomes[k] = "matched" =>
           /\ k = Len(outcomes)
           /\ result_data.link = visited[k]
           /\ p_pc \notin {"ca_scan", "ga_scan", "b_scan"}
    /\ result_data.link # 0 =>
         (outcomes # << >> /\ outcomes[Len(outcomes)] = "matched")

\* C15's case: three candidates, the first did not match, the second did, the
\* third was never fetched.
C15_Witness ==
    /\ p_pc = "emitted"
    /\ program = "backend"
    /\ Len(profile_links) = 3
    /\ outcomes = << "no match", "matched" >>
    /\ visited = << 1, 2 >>
    /\ result_data.link = 2

\* The scan of app.py visited every candidate it had and none matched.
ScanExhausted ==
    /\ program = "app"
    /\ p_pc \in {"returned", "emitted"}
    /\ outcomes # << >>
    /\ Len(outcomes) = Len(profile_links)
    /\ \A k \in DOMAIN outcomes : outcomes[k] = "no match"

\* C16: exhausted scan: the row of a scan that visited every eligible
\* candidate with no match carries 'Match Not Confirmed' (Discipline Found
\* for CA, Verified Status for GA), its Unmatched Profile Links are the links
\* of the scanned candidates in scan order, and its Profile Link is unset.
C16_ExhaustedScan ==
    ScanExhausted =>
      /\ selected_state = "california" => result_data.disc = "Match Not Confirmed"
      /\ selected_state = "georgia" => result_data.vs = "Match Not Confirmed"
      /\ result_data.unmatched = visited
      /\ result_data.unmatched = profile_links
      /\ result_data.link = 0

\* C16's case: a California table with two active rows and an inactive one
\* between them; both active profiles were read and neither matched.
C16_Witness ==
    /\ ScanExhausted
    /\ p_pc = "emitted"
    /\ selected_state = "california"
    /\ directory.rows = << "Active", "Inactive", "ACTIVE" >>
    /\ result_data.unmatched = << 1, 3 >>

\* C17: failure verdict: the row emitted for a record whose processing ended
\* with an exception (in the search, the table read or a profile visit) has
\* Verified Status 'Search Error (<source>)' or 'Error Processing'.
C17_FailureVerdict ==
    (p_pc = "emitted" /\ failure # "none") =>
      result_data.vs \in {"Search Error (CA)", "Search Error (GA)", "Error Processing"}

\* The sentinel of a failed discipline lookup, by pipeline.
DisciplineSentinel ==
    IF program = "backend" THEN "Discipline Info Not Found"
    ELSE IF selected_state = "california" THEN "Discipline Info Not Found (CA)"
    ELSE "Discipline Info Not Found (GA)"

\* C18: an extraction failure on a matched profile is recovered: the field
\* whose lookup failed holds its sentinel string, the record did not fail and
\* is no error record, and its Profile Link and signals are those of the
\* matched candidate.
C18_ExtractionRecovered ==
    /\ extraction.disc = "failed" => result_data.disc = DisciplineSentinel
    /\ extraction.status = "failed" => result_data.vs = "Status Not Found (GA)"
    /\ (extraction.disc = "failed" \/ extraction.status = "failed") =>
         /\ failure = "none"
         /\ p_pc \notin {"raised", "b_raised"}
         /\ result_data.vs \notin {"Error Processing", "Search Error (CA)",
                                   "Search Error (GA)"}
         /\ outcomes # << >>
         /\ outcomes[Len(outcomes)] = "matched"
         /\ result_data.link = visited[Len(visited)]
         /\ program = "app" =>
              /\ result_data.signals # << >>
              /\ result_data.signals = MatchSignals(page_read)
         /\ program = "backend" => result_data.confidence # NoConfidence

\* C18's case: a Georgia profile matched and both of its lookups failed.
C18_Witness ==
    /\ program = "app"
    /\ selected_state = "georgia"
    /\ p_pc = "emitted"
    /\ extraction = [status |-> "failed", disc |-> "failed"]
    /\ result_data.vs = "Status Not Found (GA)"
    /\ result_data.disc = "Discipline Info Not Found (GA)"
    /\ result_data.link = 2

\* C19, the step part: the step from the pipeline's return to the emitted row
\* gives the row the AI comment or the sentinel 'AI summary failed.' and
\* leaves every other field as the pipeline produced it.
C19_SummaryStep ==
    (p_pc = "returned" /\ p_pc' = "emitted") =>
      /\ result_data'.comments.kind \in {"AI comment", "AI summary failed."}
      /\ result_data' = [result_data EXCEPT !.comments = result_data'.comments]

\* C19: a failure of get_ai_summary does not fail the record: the row is
\* emitted with the comment 'AI summary failed.' and its other fields
\* untouched; a row with that comment did not go through `except Exception`.
C19_SummaryFailure ==
    /\ [][C19_SummaryStep]_vars
    /\ []((program = "app" /\ p_pc = "emitted"
             /\ result_data.comments.kind = "AI summary failed.")
            => failure # "other")

\* C19's case: a matched California record whose summary failed.
C19_Witness ==
    /\ program = "app"
    /\ p_pc = "emitted"
    /\ result_data.comments.kind = "AI summary failed."
    /\ result_data.vs = "Active"
    /\ result_data.link = 1
    /\ result_data.signals = << "Firm Name" >>

\* C20, the state part: 'Name Match Only' is 'Yes' exactly when Match Signals
\* is ['Name Only Fallback'], and the fallback never stands with another
\* signal.
C20_FallbackInvariant ==
    program = "app" =>
      /\ result_data.name_only = "Yes"
           <=> result_data.signals = << "Name Only Fallback" >>
      /\ \A k \in DOMAIN result_data.signals :
           result_data.signals[k] = "Name Only Fallback" => Len(result_data.signals) = 1

\* C20, the step part: is_name_only_match is called only on a page on which
\* none of the three tests of get_match_signals held.
C20_FallbackStep ==
    heading_calls' # heading_calls =>
      /\ page_read'.read
      /\ ~page_read'.firm /\ ~page_read'.email /\ ~page_read'.website
      /\ matcher_calls' = matcher_calls + 1

\* C20: the name-only fallback is the last resort and is flagged.
C20_NameOnlyFallback == []C20_FallbackInvariant /\ [][C20_FallbackStep]_vars

\* C20's case: the second candidate matched by its heading alone.
C20_Witness ==
    /\ program = "app"
    /\ p_pc = "emitted"
    /\ outcomes = << "no match", "matched" >>
    /\ heading_calls = 2
    /\ result_data.signals = << "Name Only Fallback" >>
    /\ result_data.name_only = "Yes"

\* ---------------------------------------------------------------- C21
\* The components of a confidence dict that are "Yes".
Fired(c) ==
    {k \in {"exact", "last_email", "first_email", "last_website", "first_website"} :
       c[k] = "Yes"}

\* The name tests that hold on the page of the call, of the four.
NameTestsHeld ==
    LET t == ConfidenceTests(fn_call.first_name, fn_call.last_name,
                             fn_call.csv_email, fn_call.page_text)
    IN {k \in {"last_email", "first_email", "last_website", "first_website"} : t[k]}

ExactHeld ==
    ConfidenceTests(fn_call.first_name, fn_call.last_name,
                    fn_call.csv_email, fn_call.page_text).handle

\* C21: get_match_confidence reports a match exactly when the exact e-mail
\* component fired or at least two components fired; the exact e-mail match
\* alone is a match, exactly one of the other four is none, exactly two are
\* one.
C21_PolicyB ==
    (fn_call.fn = "get_match_confidence" /\ fn_ret.done) =>
      /\ fn_ret.is_match <=>
           (fn_ret.confidence.exact = "Yes" \/ Cardinality(Fired(fn_ret.confidence)) >= 2)
      /\ fn_ret.confidence.exact = "Yes" <=> ExactHeld
      /\ ExactHeld => fn_ret.is_match
      /\ (~ExactHeld /\ Cardinality(NameTestsHeld) = 1) => ~fn_ret.is_match
      /\ (~ExactHeld /\ Cardinality(NameTestsHeld) = 2) => fn_ret.is_match

\* The exact e-mail match alone: no name test holds on the page.
C21_Witness ==
    /\ fn_call.fn = "get_match_confidence"
    /\ fn_ret.done
    /\ ExactHeld
    /\ NameTestsHeld = {}
    /\ fn_ret.is_match

\* ---------------------------------------------------------------- C22
SignalNames == << "Firm Name", "Name in Email", "Name in Website" >>

\* C22: get_match_signals returns exactly the signals whose test holds, in
\* the order firm, e-mail, website and each once; the firm signal is there
\* exactly when the firm token is not empty and occurs in the page text; an
\* empty page text gives the empty list.
C22_SignalList ==
    (fn_call.fn = "get_match_signals" /\ fn_ret.done) =>
      LET t == SignalTests(<< fn_call.first_name, fn_call.last_name >>,
                           fn_call.firm_name, fn_call.page_text)
          Holds(x) == CASE x = "Firm Name" -> t.firm
                        [] x = "Name in Email" -> t.email
                        [] x = "Name in Website" -> t.website
      IN /\ fn_ret.value = SelectSeq(SignalNames, Holds)
         /\ (\E k \in DOMAIN fn_ret.value : fn_ret.value[k] = "Firm Name")
              <=> (fn_call.firm_name # << >> /\ In(fn_call.firm_name, fn_call.page_text))
         /\ fn_call.page_text = << >> => fn_ret.value = << >>

\* A page with the firm and an e-mail address of the name.
C22_Witness ==
    /\ fn_call.fn = "get_match_signals"
    /\ fn_ret.done
    /\ fn_ret.value = << "Firm Name", "Name in Email" >>

\* ---------------------------------------------------------------- C23
\* The words of a first-name field after suffix and full-stop removal.
FieldWords(field) == Split(RemoveChar(Strip(StripSuffix(field)), "."))

\* C23: the first-name token is never a single letter when the first-name
\* field has a word of more than one letter.
C23_InitialSkipping ==
    (fn_call.fn \in {"get_name_parts", "get_name_parts_for_matching"} /\ fn_ret.done) =>
      ((\E k \in DOMAIN FieldWords(fn_call.first_name) :
          Len(FieldWords(fn_call.first_name)[k]) > 1)
         => Len(fn_ret.value[1]) # 1)

\* ---------------------------------------------------------------- C24
\* C24: a row processed twice, the directory, the pages and the summary call
\* answering the same both times, gives the same result row in every field.
C24_Idempotence ==
    (first_run.done /\ p_pc = "emitted" /\ stubs = first_run.stubs) =>
      result_data = first_run.result

\* ---------------------------------------------------------------- C25
\* A step with a call of the profile matcher.
MatcherCalled == matcher_calls' > matcher_calls

\* C25: in every pipeline the record's verified status has been produced
\* before the first call of the profile matcher for the record.
C25_StatusBeforeMatching ==
    [][MatcherCalled => result_data.vs # "Error Processing"]_vars

\* C25 as amended: in the CalBar pipelines (app.py and backend.py) the
\* verified status has been written from the result table before any call of
\* the profile matcher; in the Georgia pipeline it is still unset at every
\* matcher call and is written only with the page that the matcher confirmed.
C25_StatusStep ==
    MatcherCalled =>
      /\ (program = "app" /\ selected_state = "california") =>
           result_data.vs = "Active"
      /\ program = "backend" =>
           result_data.vs = OverallStatus(directory.rows)
      /\ (program = "app" /\ selected_state = "georgia") =>
           /\ result_data.vs = "Error Processing"
           /\ result_data'.vs # result_data.vs
                => outcomes'[Len(outcomes')] = "matched"

C25_StatusBeforeCalBarMatching == [][C25_StatusStep]_vars

\* The second profile of a CalBar record goes to the matcher in backend.py,
\* the status of the first row standing in the row.
C25_Witness ==
    /\ program = "backend"
    /\ matcher_calls = 2
    /\ directory.rows = << "Inactive", "Deceased" >>
    /\ result_data.vs = "Inactive"

\* ---------------------------------------------------------------- C26
\* The run_verification_process threads that are alive.
AliveWorkers == {w \in Requests : b_pc[w] \notin {"idle", "done"}}

\* A /start request is refused with 'A process is already running.'
Refused(r) == req_pc[r] = "new" /\ req_pc'[r] = "already_running"

\* C26: at most one run_verification_process thread is alive at any moment,
\* and a /start request that finds a run in progress is refused and leaves
\* the shared status as it is.
C26_SingleRun ==
    /\ [](Cardinality(AliveWorkers) <= 1)
    /\ [][\A r \in Requests : Refused(r) => (status.is_running /\ status' = status)]_vars

\* ---------------------------------------------------------------- C27
\* C27: in every row app.py emits, error rows included, the profile link is
\* set exactly when there are match signals, and a row with a profile link
\* has no unmatched profile links.
C27_ResultShape ==
    (program = "app" /\ p_pc = "emitted") =>
      /\ result_data.link # 0 <=> result_data.signals # << >>
      /\ ~(result_data.link # 0 /\ result_data.unmatched # << >>)

\* The second Georgia profile matched by its heading only, and its row has
\* the link, the signal and no unmatched links.
C27_Witness ==
    /\ program = "app"
    /\ p_pc = "emitted"
    /\ selected_state = "georgia"
    /\ result_data.link = 2
    /\ result_data.signals = << "Name Only Fallback" >>
    /\ result_data.unmatched = << >>

====
